---- MODULE Spec2Model ----
(***************************************************************************)
(* Model of the self-contained algorithms of blendend's native code:       *)
(*   - blur_image_inplace  (c_src/images/blur.cpp)                         *)
(*   - flattenPath / path_flatten (c_src/geometries/path.cpp)              *)
(*                                                                         *)
(* Conventions.  Byte buffers are sequences of 0..255; the byte at C       *)
(* offset k is element k+1.  A double sigma is carried in tenths           *)
(* (sigma10 = 10 * sigma), path coordinates and tolerances are exact       *)
(* integers in fixed-point units.                                          *)
(***************************************************************************)
EXTENDS Integers, Sequences, FiniteSets, TLC

VARIABLES
  img,      \* the BLImage handed to blur_image_inplace: fmt, w, h, stride, data
  buf_a,    \* blur_scratch.buf_a of the calling thread
  buf_b,    \* blur_scratch.buf_b of the calling thread
  ret,      \* BLResult of the last blur_image_inplace call ("none" before any)
  call,     \* arguments and pre-state of the last blur_image_inplace call
  rd,       \* image byte offsets read by the last call
  wr,       \* image byte offsets written by the last call
  ncalls,   \* number of blur_image_inplace calls made so far
  req_max,  \* largest buf_bytes a call on this thread has computed so far
  srcPath,  \* srcPath->value of path_flatten: a sequence of [cmd, v]
  argv,     \* the arguments of the path_flatten call: argc, srcOk, tolTerm
  tol,      \* the double tolerance of path_flatten, in 1/64 units
  dstPath,  \* dstPath->value: a sequence of [cmd, v]
  fpc,      \* where path_flatten is: idle, loop, quad, cubic, done
  fi,       \* flattenPath's loop index i
  lastOn,   \* flattenPath's lastOn
  subStart, \* flattenPath's subStart
  hasSub,   \* flattenPath's hasSub
  stack,    \* pending calls of flattenQuadRecursive / flattenCubicRecursive
  fret,     \* BLResult of flattenPath ("none" while it has not returned)
  nifRet,   \* what path_flatten returned ("none" while it has not)
  dstRes,   \* the resource NifResource<Path>::alloc gave path_flatten, or NoRes
  \* the random engine
  size_bits, \* the width of size_t on the platform the library is built for
  rng,       \* the RandState resources: handle -> <<s[0], s[1], s[2], s[3]>>
  seedOf,    \* handle -> the term rand_new made it from
  hist,      \* handle -> the rand_normal_batch calls that returned ok: [count, out]
  rcall      \* the rand call in progress or last returned

blurVars == <<img, buf_a, buf_b, ret, call, rd, wr, ncalls, req_max>>

flatVars == <<srcPath, argv, tol, dstPath, fpc, fi, lastOn, subStart, hasSub, stack,
              fret, nifRet, dstRes>>

randVars == <<size_bits, rng, seedOf, hist, rcall>>

vars == <<blurVars, flatVars, randVars>>

----------------------------------------------------------------------------
(* Bounds of the blur model *)

\* largest image width and height, in pixels
MaxDim == 2
\* blur calls per behaviour
MaxCalls == 1

----------------------------------------------------------------------------
(* Byte buffers *)

\* the sequence f[1], ..., f[n], built element by element
RECURSIVE BytesFrom(_, _, _)
BytesFrom(f, k, n) == IF k > n THEN <<>> ELSE <<f[k]>> \o BytesFrom(f, k + 1, n)

Bytes(f, n) == BytesFrom(f, 1, n)

----------------------------------------------------------------------------
(* Images *)

Formats == {"NONE", "A8", "PRGB32", "XRGB32"}

\* bytes per pixel of a format (BLFormatInfo depth / 8)
BytesPerPixel(fmt) ==
  CASE fmt = "A8" -> 1
    [] fmt = "PRGB32" -> 4
    [] fmt = "XRGB32" -> 4
    [] OTHER -> 0

\* padding bytes at the end of each image row
Pads == {0, 1}

\* image contents tried per geometry
Patterns == {1}

\* byte k (C offset) of content pattern p
PatternByte(p, k) == (p * 97 + (k + 1) * (k + p) * 59) % 256

MakeImage(fmt, w, h, pad, p) ==
  LET stride == w * BytesPerPixel(fmt) + pad
  IN [fmt |-> fmt, w |-> w, h |-> h, stride |-> stride,
      data |-> Bytes([k \in 1..(stride * h) |-> PatternByte(p, k - 1)], stride * h)]

\* The empty image (format NONE, 0x0), every non-empty image of a format with
\* pixels, and zero-width / zero-height images of the two blurrable formats.
Images ==
  {MakeImage("NONE", 0, 0, 0, 1)}
  \cup {MakeImage(f, w, h, pad, p) :
          f \in {"A8", "PRGB32", "XRGB32"}, w \in 1..MaxDim, h \in 1..MaxDim,
          pad \in Pads, p \in Patterns}
  \cup {MakeImage(f, d[1], d[2], 0, 1) :
          f \in {"A8", "PRGB32"},
          d \in {e \in (0..MaxDim) \X (0..MaxDim) : e[1] = 0 \/ e[2] = 0}}

\* sigma arguments, in tenths: -1.0, 0.0, 1.0, 2.0
Sigmas == {-10, 0, 10, 20}

\* width / height arguments: the default -1, 0, and 1 .. one past the largest
DimArgs == {-1} \cup (0..(MaxDim + 1))

----------------------------------------------------------------------------
(* blur.cpp helpers *)

\* floor(sqrt(num / 100)) for num >= 0
RECURSIVE FloorSqrtFrom(_, _)
FloorSqrtFrom(num, n) ==
  IF (n + 1) * (n + 1) * 100 <= num THEN FloorSqrtFrom(num, n + 1) ELSE n

\* std::round of num / den (den > 0): halves away from zero
RoundDiv(num, den) ==
  IF num >= 0 THEN (2 * num + den) \div (2 * den)
  ELSE 0 - ((2 * (0 - num) + den) \div (2 * den))

gaussian_to_box_sizes(sigma10) ==
  LET wl0 == FloorSqrtFrom(4 * sigma10 * sigma10 + 100, 0)
      wl == IF wl0 % 2 = 0 THEN wl0 - 1 ELSE wl0
      wu == wl + 2
      m == RoundDiv(100 * (3 * wl * wl + 12 * wl + 9) - 12 * sigma10 * sigma10,
                    100 * (4 * wl + 4))
  IN [i \in 1..3 |-> IF i - 1 < m THEN wl ELSE wu]

clamp_int(v, lo, hi) ==
  IF v < lo THEN lo ELSE IF v > hi THEN hi ELSE v

\* sum of the window -radius..radius around position 0 (blur.cpp:71-76)
RECURSIVE InitSum_open(_, _, _, _)
InitSum_open(line, n, radius, i) ==
  IF i >= radius THEN 0
  ELSE line[clamp_int(i, 0, n - 1) + 1] + InitSum_open(line, n, radius, i + 1)

RECURSIVE InitSum(_, _, _, _)
InitSum(line, n, radius, i) ==
  IF i > radius THEN 0
  ELSE line[clamp_int(i, 0, n - 1) + 1] + InitSum(line, n, radius, i + 1)

\* the sliding loop over one channel of one row or column (blur.cpp:78-92):
\* for every position the byte written and the value sums[c] had then
RECURSIVE SlideFrom(_, _, _, _, _, _)
SlideFrom(line, n, radius, x, sum, out) ==
  IF x >= n THEN out
  ELSE LET dia == radius * 2 + 1
           next == clamp_int(x + radius + 1, 0, n - 1)
           prev == clamp_int(x - radius, 0, n - 1)
       IN SlideFrom(line, n, radius, x + 1,
                    sum + line[next + 1] - line[prev + 1],
                    Append(out, [v |-> ((sum + dia \div 2) \div dia) % 256,
                                 sum |-> sum]))

SlideTrace(line, n, radius) ==
  SlideFrom(line, n, radius, 0, InitSum(line, n, radius, 0 - radius), <<>>)

\* the bytes written for one channel of one row or column
Written(trace) == [k \in 1..Len(trace) |-> trace[k].v] \o <<>>

SlideLine(line, n, radius) == Written(SlideTrace(line, n, radius))

\* box_blur_h: src and dst are tight views of w x h pixels, ch channels,
\* stride w * ch; the result is the new content of dst's buffer.
box_blur_h(src, dst, w, h, ch, radius) ==
  LET stride == w * ch
      row(y, c) == Bytes([x \in 1..w |-> src[y * stride + (x - 1) * ch + c + 1]], w)
      \* element y * ch + c + 1: the blurred channel c of row y
      out == Bytes([j \in 1..(h * ch) |->
                      SlideLine(row((j - 1) \div ch, (j - 1) % ch), w, radius)],
                   h * ch)
  IN Bytes([k \in 1..Len(dst) |->
              IF k <= stride * h
              THEN out[((k - 1) \div stride) * ch + ((k - 1) % ch) + 1]
                      [((k - 1) % stride) \div ch + 1]
              ELSE dst[k]], Len(dst))

\* box_blur_v: the same window sliding down every column.
box_blur_v(src, dst, w, h, ch, radius) ==
  LET stride == w * ch
      col(x, c) == Bytes([y \in 1..h |-> src[(y - 1) * stride + x * ch + c + 1]], h)
      \* element x * ch + c + 1: the blurred channel c of column x
      out == Bytes([j \in 1..(w * ch) |->
                      SlideLine(col((j - 1) \div ch, (j - 1) % ch), h, radius)],
                   w * ch)
  IN Bytes([k \in 1..Len(dst) |->
              IF k <= stride * h
              THEN out[((k - 1) % stride) + 1][((k - 1) \div stride) + 1]
              ELSE dst[k]], Len(dst))

----------------------------------------------------------------------------
(* blur_image_inplace, piece by piece *)

\* blur.cpp:132
SigmaRejected_lt(sigma10) == sigma10 < 0

SigmaRejected(sigma10) == sigma10 <= 0

\* blur.cpp:136
Degenerate_and(w, h) == w = 0 /\ h = 0

Degenerate(w, h) == w = 0 \/ h = 0

\* blur.cpp:139-145: 0 stands for the default branch (BL_ERROR_INVALID_STATE)
Channels_xrgb(fmt) ==
  CASE fmt = "PRGB32" -> 4
    [] fmt = "XRGB32" -> 4
    [] fmt = "A8" -> 1
    [] OTHER -> 0

Channels(fmt) ==
  CASE fmt = "PRGB32" -> 4
    [] fmt = "A8" -> 1
    [] OTHER -> 0

\* blur.cpp:153-154
EffDim_full(arg, dim) == dim

EffDim(arg, dim) == IF arg > 0 /\ arg <= dim THEN arg ELSE dim

\* std::vector::resize to a larger size value-initialises the new bytes
GrowTo_fit(buf, n) ==
  Bytes([k \in 1..n |-> IF k <= Len(buf) THEN buf[k] ELSE 0], n)

GrowTo(buf, n) ==
  IF Len(buf) < n THEN Bytes([k \in 1..n |-> IF k <= Len(buf) THEN buf[k] ELSE 0], n)
  ELSE buf

\* image byte offsets touched by the copy in and by the copy out
\* (blur.cpp:171-180 and 195-204)
CopyOffsets(stride, row_bytes, eff_h) ==
  IF row_bytes = stride THEN 0..(row_bytes * eff_h - 1)
  ELSE {y * stride + j : y \in 0..(eff_h - 1), j \in 0..(row_bytes - 1)}

\* blur.cpp:170-180: the rectangle packed into the front of buf_a
Pack_skipfirst(data, stride, row_bytes, eff_h, buf) ==
  Bytes([k \in 1..Len(buf) |->
           IF 1 < k /\ k <= row_bytes * eff_h
           THEN IF row_bytes = stride THEN data[k]
                ELSE data[((k - 1) \div row_bytes) * stride + ((k - 1) % row_bytes) + 1]
           ELSE buf[k]], Len(buf))

Pack(data, stride, row_bytes, eff_h, buf) ==
  Bytes([k \in 1..Len(buf) |->
           IF k <= row_bytes * eff_h
           THEN IF row_bytes = stride THEN data[k]
                ELSE data[((k - 1) \div row_bytes) * stride + ((k - 1) % row_bytes) + 1]
           ELSE buf[k]], Len(buf))

\* blur.cpp:195-204: the packed result copied back over the image rows
Unpack_stride(data, stride, row_bytes, eff_h, buf) ==
  Bytes([k \in 1..Len(data) |->
           IF (k - 1) \div stride < eff_h
           THEN LET idx == ((k - 1) \div stride) * row_bytes + ((k - 1) % stride)
                IN IF idx < Len(buf) THEN buf[idx + 1] ELSE 0
           ELSE data[k]], Len(data))

Unpack(data, stride, row_bytes, eff_h, buf) ==
  Bytes([k \in 1..Len(data) |->
           IF (k - 1) \in CopyOffsets(stride, row_bytes, eff_h)
           THEN IF row_bytes = stride THEN buf[k]
                ELSE buf[((k - 1) \div stride) * row_bytes + ((k - 1) % stride) + 1]
           ELSE data[k]], Len(data))

\* blur.cpp:185-190: the three h+v passes ping-ponging between buf_a and buf_b
RECURSIVE BoxPasses_vh(_, _, _, _, _, _, _)
BoxPasses_vh(a, b, w, h, ch, sizes, bi) ==
  IF bi > 3 THEN [a |-> a, b |-> b]
  ELSE LET radius == sizes[bi] \div 2
           b1 == box_blur_v(a, b, w, h, ch, radius)
           a1 == box_blur_h(b1, a, w, h, ch, radius)
       IN BoxPasses_vh(a1, b1, w, h, ch, sizes, bi + 1)

RECURSIVE BoxPasses(_, _, _, _, _, _, _)
BoxPasses(a, b, w, h, ch, sizes, bi) ==
  IF bi > 3 THEN [a |-> a, b |-> b]
  ELSE LET radius == sizes[bi] \div 2
           b1 == box_blur_h(a, b, w, h, ch, radius)
           a1 == box_blur_v(b1, a, w, h, ch, radius)
       IN BoxPasses(a1, b1, w, h, ch, sizes, bi + 1)

\* The whole of blur_image_inplace on image im with scratch buffers a, b:
\* the return value, the image bytes, the scratch buffers and the image
\* offsets read and written.  getDataOk is the outcome of img.get_data.
BlurOutcome(im, a, b, sigma10, width, height, getDataOk) ==
  LET same(r) == [ret |-> r, data |-> im.data, a |-> a, b |-> b, rd |-> {}, wr |-> {},
                  buf_bytes |-> 0]
  IN IF SigmaRejected(sigma10) THEN same("BL_ERROR_INVALID_VALUE")
     ELSE IF Degenerate(im.w, im.h) THEN same("BL_SUCCESS")
     ELSE IF Channels(im.fmt) = 0 THEN same("BL_ERROR_INVALID_STATE")
     ELSE IF ~getDataOk THEN same("BL_ERROR_DATA_ACCESS")
     ELSE
       LET channels == Channels(im.fmt)
           eff_w == EffDim(width, im.w)
           eff_h == EffDim(height, im.h)
           row_bytes == eff_w * channels
           buf_bytes == row_bytes * eff_h
           a0 == GrowTo(a, buf_bytes)
           b0 == GrowTo(b, buf_bytes)
           packed == Pack(im.data, im.stride, row_bytes, eff_h, a0)
           done == BoxPasses(packed, b0, eff_w, eff_h, channels,
                             gaussian_to_box_sizes(sigma10), 1)
           offs == CopyOffsets(im.stride, row_bytes, eff_h)
       IN [ret |-> "BL_SUCCESS",
           data |-> Unpack(im.data, im.stride, row_bytes, eff_h, done.a),
           a |-> done.a, b |-> done.b, rd |-> offs, wr |-> offs,
           buf_bytes |-> buf_bytes]

----------------------------------------------------------------------------
(* The flattener while the blur is studied: no path, nothing running *)

NoArgs == [argc |-> 0, srcOk |-> FALSE, tolTerm |-> "none", allocOk |-> FALSE]

\* no resource: id 0 is no object.  own counts the references native code
\* holds, terms the Erlang terms that refer to the resource.
NoRes == [id |-> 0, own |-> 0, terms |-> 0]

FlattenUnused ==
  /\ srcPath = <<>>
  /\ argv = NoArgs
  /\ tol = 0
  /\ dstPath = <<>>
  /\ fpc = "idle"
  /\ fi = 0
  /\ lastOn = <<0, 0>>
  /\ subStart = <<0, 0>>
  /\ hasSub = FALSE
  /\ stack = <<>>
  /\ fret = "none"
  /\ nifRet = "none"
  /\ dstRes = NoRes

----------------------------------------------------------------------------
(* The random engine while the blur or the flattener is studied: no RandState *)

\* the RandState resources the model can hold
Handles == {1, 2}

NoState == <<>>

NoTerm == [kind |-> "none", neg |-> FALSE, over |-> FALSE, mag |-> <<>>]

\* no rand call has been made
NoRandCall ==
  [fn |-> "none", pc |-> "idle", h |-> 0, term |-> NoTerm, n |-> 0,
   total_bytes |-> <<>>, out |-> <<>>, log |-> <<>>, pre |-> NoState,
   ret |-> "none"]

RandUnused ==
  /\ size_bits = 64
  /\ rng = [h \in Handles |-> NoState]
  /\ seedOf = [h \in Handles |-> NoTerm]
  /\ hist = [h \in Handles |-> <<>>]
  /\ rcall = NoRandCall

----------------------------------------------------------------------------
(* The blur state machine *)

NoCall == [sigma |-> 0, width |-> 0, height |-> 0, getDataOk |-> TRUE,
           data |-> <<>>, a |-> <<>>, b |-> <<>>]

InitBlur ==
  /\ img \in Images
  /\ buf_a = <<>>
  /\ buf_b = <<>>
  /\ ret = "none"
  /\ call = NoCall
  /\ rd = {}
  /\ wr = {}
  /\ ncalls = 0
  /\ req_max = 0

\* one call of blur_image_inplace(img, sigma, width, height)
blur_image_inplace(sigma10, width, height, getDataOk) ==
  /\ ret = "none"
  /\ \E o \in {BlurOutcome(img, buf_a, buf_b, sigma10, width, height, getDataOk)} :
       /\ img' = [img EXCEPT !.data = o.data]
       /\ buf_a' = o.a
       /\ buf_b' = o.b
       /\ ret' = o.ret
       /\ rd' = o.rd
       /\ wr' = o.wr
       /\ req_max' = IF o.buf_bytes > req_max THEN o.buf_bytes ELSE req_max
  /\ call' = [sigma |-> sigma10, width |-> width, height |-> height,
              getDataOk |-> getDataOk, data |-> img.data, a |-> buf_a, b |-> buf_b]
  /\ ncalls' = ncalls + 1

\* Between two calls on the same thread the caller takes the result: the
\* record of the finished call (arguments, result, offsets touched) is
\* dropped, the image and the thread's scratch buffers are kept.
blur_returned ==
  /\ ret # "none"
  /\ ret' = "none"
  /\ call' = NoCall
  /\ rd' = {}
  /\ wr' = {}
  /\ UNCHANGED <<img, buf_a, buf_b, ncalls, req_max>>

NextBlur ==
  \/ \E s \in Sigmas, wa \in DimArgs, ha \in DimArgs, ok \in BOOLEAN :
       ncalls < MaxCalls /\ blur_image_inplace(s, wa, ha, ok)
       /\ UNCHANGED <<flatVars, randVars>>
  \/ blur_returned /\ UNCHANGED <<flatVars, randVars>>

InitBlurOnly == InitBlur /\ FlattenUnused /\ RandUnused

SpecBlur == InitBlurOnly /\ [][NextBlur]_vars

----------------------------------------------------------------------------
(* The box passes on their own: blur_image_inplace between the copy in      *)
(* (blur.cpp:180) and the copy out (blur.cpp:195), with buf_a holding the   *)
(* packed rectangle.  Passes follow one another in any order and with any   *)
(* radius.                                                                  *)

\* box passes per behaviour
MaxPasses == 2

\* blur.cpp:187: radius = boxes.sizes[bi] / 2
Radii == 0..2

\* contents of the packed rectangle
BoxPatterns == {1, 2}

\* the packed rectangle as an image without row padding
TightImages ==
  {MakeImage(f, w, h, 0, p) :
     f \in {"A8", "PRGB32"}, w \in 1..MaxDim, h \in 1..MaxDim, p \in BoxPatterns}

NoPass == [pass |-> "none", radius |-> 0, src |-> <<>>]

InitBox ==
  /\ img \in TightImages
  /\ buf_a = img.data
  /\ buf_b = [k \in 1..Len(img.data) |-> 0] \o <<>>
  /\ ret = "none"
  /\ call = NoPass
  /\ rd = {}
  /\ wr = {}
  /\ ncalls = 0
  /\ req_max = Len(img.data)

\* blur.cpp:188: box_blur_h(src, dst, radius), src in buf_a and dst in buf_b
pass_h(radius) ==
  /\ buf_b' = box_blur_h(buf_a, buf_b, img.w, img.h, Channels(img.fmt), radius)
  /\ call' = [pass |-> "h", radius |-> radius, src |-> buf_a]
  /\ ncalls' = ncalls + 1
  /\ UNCHANGED <<img, buf_a, ret, rd, wr, req_max>>

\* blur.cpp:189: box_blur_v(dst, src, radius)
pass_v(radius) ==
  /\ buf_a' = box_blur_v(buf_b, buf_a, img.w, img.h, Channels(img.fmt), radius)
  /\ call' = [pass |-> "v", radius |-> radius, src |-> buf_b]
  /\ ncalls' = ncalls + 1
  /\ UNCHANGED <<img, buf_b, ret, rd, wr, req_max>>

NextBox ==
  \/ \E r \in Radii :
       ncalls < MaxPasses /\ pass_h(r) /\ UNCHANGED <<flatVars, randVars>>
  \/ \E r \in Radii :
       ncalls < MaxPasses /\ pass_v(r) /\ UNCHANGED <<flatVars, randVars>>

InitBoxOnly == InitBox /\ FlattenUnused /\ RandUnused

SpecBox == InitBoxOnly /\ [][NextBox]_vars

----------------------------------------------------------------------------
(* Several calls on one thread, each on an image of the caller's choice.    *)
(* The thread's scratch buffers live on from call to call.                  *)

\* blur calls per behaviour
MaxSeq == 2

\* the images handed in: 1 or 4 or no blurrable channels, with and without
\* contents, one with row padding
SeqImages ==
  {MakeImage(f, d, d, 0, 1) : f \in {"A8", "PRGB32", "XRGB32"}, d \in 1..MaxDim}
  \cup {MakeImage("A8", MaxDim, 1, 1, 1), MakeImage("PRGB32", 0, 1, 0, 1)}

\* the arguments handed in: sigma 0.0 or 1.0; the whole image, a 1 x 1
\* rectangle, or one column
SeqArgs ==
  {[sigma |-> s, width |-> d[1], height |-> d[2], getDataOk |-> ok] :
     s \in {0, 10}, d \in {<<0 - 1, 0 - 1>>, <<1, 1>>, <<1, 0 - 1>>}, ok \in BOOLEAN}

InitSeq ==
  /\ img \in SeqImages
  /\ buf_a = <<>>
  /\ buf_b = <<>>
  /\ ret = "none"
  /\ call = NoCall
  /\ rd = {}
  /\ wr = {}
  /\ ncalls = 0
  /\ req_max = 0

\* the caller takes the result and comes back with an image of its choice
next_image(im) ==
  /\ ret # "none"
  /\ img' = im
  /\ ret' = "none"
  /\ call' = NoCall
  /\ rd' = {}
  /\ wr' = {}
  /\ UNCHANGED <<buf_a, buf_b, ncalls, req_max>>

NextSeq ==
  \/ \E c \in SeqArgs :
       /\ ncalls < MaxSeq
       /\ blur_image_inplace(c.sigma, c.width, c.height, c.getDataOk)
       /\ UNCHANGED <<flatVars, randVars>>
  \/ \E im \in SeqImages : next_image(im) /\ UNCHANGED <<flatVars, randVars>>

InitSeqOnly == InitSeq /\ FlattenUnused /\ RandUnused

SpecSeq == InitSeqOnly /\ [][NextSeq]_vars

----------------------------------------------------------------------------
(* Two threads, each making one call of blur_image_inplace on its own      *)
(* image.  The variables of the blur hold one value per thread; a thread   *)
(* runs from one block of statements to the next, and the blocks of the    *)
(* two threads interleave in any order.                                    *)

Threads == {1, 2}

\* blur.cpp:60: blur_scratch is thread_local, so the instance a thread's
\* `blur_scratch` names is that thread's own; a plain static would name one
\* instance for all
scratchOf_static(t) == 1

scratchOf(t) == t

\* the images handed in: different sizes, formats, paddings and contents
ParImages ==
  {MakeImage("A8", 2, 2, 1, 1), MakeImage("PRGB32", 2, 1, 0, 2),
   MakeImage("A8", 1, 2, 0, 3), MakeImage("XRGB32", 1, 1, 0, 1)}

\* the arguments handed in: sigma 0.0 or 1.0; the whole image or one column
ParArgs ==
  {[sigma |-> s, width |-> w, height |-> 0 - 1, getDataOk |-> TRUE] :
     s \in {0, 10}, w \in {0 - 1, 1}}

\* a thread outside blur_image_inplace
Idle == [pc |-> "idle", bi |-> 0, sigma |-> 0, width |-> 0, height |-> 0,
         getDataOk |-> TRUE, data |-> <<>>, mixed |-> FALSE]

InitPar ==
  /\ img \in [Threads -> ParImages]
  /\ buf_a = [s \in Threads |-> <<>>]
  /\ buf_b = [s \in Threads |-> <<>>]
  /\ ret = [t \in Threads |-> "none"]
  /\ call = [t \in Threads |-> Idle]
  /\ rd = {}
  /\ wr = {}
  /\ ncalls = 0
  /\ req_max = 0

\* the locals of thread t inside the call (blur.cpp:140, 153-158)
par_channels(t) == Channels(img[t].fmt)

par_eff_w(t) == EffDim(call[t].width, img[t].w)

par_eff_h(t) == EffDim(call[t].height, img[t].h)

par_row_bytes(t) == par_eff_w(t) * par_channels(t)

\* some other thread is between its entry and its return
OtherInside(t) == \E u \in Threads \ {t} : call[u].pc \notin {"idle", "done"}

\* thread t moves to block pc; mixed records that it did so while another
\* thread was inside the function
Moved(t, pc, bi) ==
  [call EXCEPT ![t].pc = pc, ![t].bi = bi,
               ![t].mixed = call[t].mixed \/ OtherInside(t)]

\* blur.cpp:130-164: the checks, then the two resizes of the scratch pair
par_enter(t, c) ==
  /\ call[t].pc = "idle"
  /\ ncalls' = ncalls + 1
  /\ IF SigmaRejected(c.sigma) \/ Degenerate(img[t].w, img[t].h)
        \/ Channels(img[t].fmt) = 0 \/ ~c.getDataOk
     THEN /\ ret' = [ret EXCEPT ![t] =
                       IF SigmaRejected(c.sigma) THEN "BL_ERROR_INVALID_VALUE"
                       ELSE IF Degenerate(img[t].w, img[t].h) THEN "BL_SUCCESS"
                       ELSE IF Channels(img[t].fmt) = 0 THEN "BL_ERROR_INVALID_STATE"
                       ELSE "BL_ERROR_DATA_ACCESS"]
          /\ call' = [call EXCEPT ![t] =
                        c @@
                        [pc |-> "done", bi |-> 0, data |-> img[t].data,
                         mixed |-> OtherInside(t)]]
          /\ UNCHANGED <<img, buf_a, buf_b, rd, wr, req_max>>
     ELSE \E n \in {EffDim(c.width, img[t].w) * Channels(img[t].fmt)
                    * EffDim(c.height, img[t].h)} :
            /\ buf_a' = [buf_a EXCEPT ![scratchOf(t)] = GrowTo(@, n)]
            /\ buf_b' = [buf_b EXCEPT ![scratchOf(t)] = GrowTo(@, n)]
            /\ rd' = rd \cup {<<t, scratchOf(t)>>}
            /\ wr' = wr \cup {<<t, scratchOf(t)>>}
            /\ call' = [call EXCEPT ![t] =
                          c @@ [pc |-> "sized", bi |-> 0, data |-> img[t].data,
                                mixed |-> OtherInside(t)]]
            /\ UNCHANGED <<img, ret, req_max>>

\* blur.cpp:166-183: the rectangle copied into buf_a
par_pack(t) ==
  /\ call[t].pc = "sized"
  /\ buf_a' = [buf_a EXCEPT ![scratchOf(t)] =
                 Pack(img[t].data, img[t].stride, par_row_bytes(t), par_eff_h(t), @)]
  /\ wr' = wr \cup {<<t, scratchOf(t)>>}
  /\ call' = Moved(t, "h", 1)
  /\ UNCHANGED <<img, buf_b, ret, rd, ncalls, req_max>>

\* blur.cpp:187-188: box_blur_h(src, dst, radius) of round bi
par_h(t) ==
  /\ call[t].pc = "h"
  /\ buf_b' = [buf_b EXCEPT ![scratchOf(t)] =
                 box_blur_h(buf_a[scratchOf(t)], @, par_eff_w(t), par_eff_h(t),
                            par_channels(t),
                            gaussian_to_box_sizes(call[t].sigma)[call[t].bi] \div 2)]
  /\ rd' = rd \cup {<<t, scratchOf(t)>>}
  /\ wr' = wr \cup {<<t, scratchOf(t)>>}
  /\ call' = Moved(t, "v", call[t].bi)
  /\ UNCHANGED <<img, buf_a, ret, ncalls, req_max>>

\* blur.cpp:189: box_blur_v(dst, src, radius) of round bi, then ++bi
par_v(t) ==
  /\ call[t].pc = "v"
  /\ buf_a' = [buf_a EXCEPT ![scratchOf(t)] =
                 box_blur_v(buf_b[scratchOf(t)], @, par_eff_w(t), par_eff_h(t),
                            par_channels(t),
                            gaussian_to_box_sizes(call[t].sigma)[call[t].bi] \div 2)]
  /\ rd' = rd \cup {<<t, scratchOf(t)>>}
  /\ wr' = wr \cup {<<t, scratchOf(t)>>}
  /\ call' = IF call[t].bi < 3 THEN Moved(t, "h", call[t].bi + 1)
             ELSE Moved(t, "out", call[t].bi)
  /\ UNCHANGED <<img, buf_b, ret, ncalls, req_max>>

\* blur.cpp:195-206: the copy back into the image, and the return
par_unpack(t) ==
  /\ call[t].pc = "out"
  /\ img' = [img EXCEPT ![t].data =
               Unpack(@, img[t].stride, par_row_bytes(t), par_eff_h(t),
                      buf_a[scratchOf(t)])]
  /\ rd' = rd \cup {<<t, scratchOf(t)>>}
  /\ ret' = [ret EXCEPT ![t] = "BL_SUCCESS"]
  /\ call' = Moved(t, "done", call[t].bi)
  /\ UNCHANGED <<buf_a, buf_b, wr, ncalls, req_max>>

NextPar ==
  \/ \E t \in Threads, c \in ParArgs :
       par_enter(t, c) /\ UNCHANGED <<flatVars, randVars>>
  \/ \E t \in Threads : par_pack(t) /\ UNCHANGED <<flatVars, randVars>>
  \/ \E t \in Threads : par_h(t) /\ UNCHANGED <<flatVars, randVars>>
  \/ \E t \in Threads : par_v(t) /\ UNCHANGED <<flatVars, randVars>>
  \/ \E t \in Threads : par_unpack(t) /\ UNCHANGED <<flatVars, randVars>>

InitParOnly == InitPar /\ FlattenUnused /\ RandUnused

SpecPar == InitParOnly /\ [][NextPar]_vars

----------------------------------------------------------------------------
(* Properties of blur_image_inplace *)

Called == ret # "none"

Supported(fmt) == fmt \in {"A8", "PRGB32"}

\* byte offsets of the pixels of the top-left w x h rectangle of image im
RectOffsets(im, w, h) ==
  {y * im.stride + x * BytesPerPixel(im.fmt) + c :
     y \in 0..(h - 1), x \in 0..(w - 1), c \in 0..(BytesPerPixel(im.fmt) - 1)}

\* the side of the processed rectangle for one argument and one dimension
Side(arg, dim) == IF 1 <= arg /\ arg <= dim THEN arg ELSE dim

ArgsValid == /\ 1 <= call.width /\ call.width <= img.w
             /\ 1 <= call.height /\ call.height <= img.h

Blurred == Called /\ ret = "BL_SUCCESS" /\ img.w > 0 /\ img.h > 0

\* C1: a call with sigma <= 0 returns the invalid-value error and leaves every
\* byte of the image and of the two scratch buffers as it was.
C1_InvalidSigmaLeavesAllBytes ==
  (Called /\ call.sigma <= 0) =>
    /\ ret = "BL_ERROR_INVALID_VALUE"
    /\ img.data = call.data
    /\ buf_a = call.a
    /\ buf_b = call.b

C1_Witness ==
  /\ Called /\ call.sigma = 0 /\ ret = "BL_ERROR_INVALID_VALUE"
  /\ img.w > 0 /\ img.h > 0 /\ img.fmt = "PRGB32"

\* C2 as stated: with sigma > 0 every image of an unsupported format, zero-sized
\* ones included, gets the unsupported-format error and is not modified.
C2_AsClaimed ==
  (Called /\ call.sigma > 0 /\ ~Supported(img.fmt)) =>
    /\ ret = "BL_ERROR_INVALID_STATE"
    /\ img.data = call.data

\* C2 amended: with sigma > 0 every image of an unsupported format whose width
\* and height are both positive gets the unsupported-format error and is not
\* modified.
C2_UnsupportedFormatNonEmpty ==
  (Called /\ call.sigma > 0 /\ ~Supported(img.fmt) /\ img.w > 0 /\ img.h > 0) =>
    /\ ret = "BL_ERROR_INVALID_STATE"
    /\ img.data = call.data

C2_Witness ==
  /\ Called /\ call.sigma > 0 /\ img.fmt = "XRGB32" /\ call.getDataOk
  /\ ret = "BL_ERROR_INVALID_STATE"

\* C3: with sigma > 0 a supported-format image of width 0 or height 0 gives
\* success, no image byte is read or written and the scratch buffers keep
\* their sizes.
C3_DegenerateIsNoOp ==
  (Called /\ call.sigma > 0 /\ Supported(img.fmt) /\ (img.w = 0 \/ img.h = 0)) =>
    /\ ret = "BL_SUCCESS"
    /\ rd = {} /\ wr = {}
    /\ img.data = call.data
    /\ Len(buf_a) = Len(call.a)
    /\ Len(buf_b) = Len(call.b)

C3_Witness ==
  /\ Called /\ call.sigma > 0 /\ img.fmt = "A8" /\ img.w = 0 /\ img.h > 0
  /\ ret = "BL_SUCCESS"

\* C4 as stated: the width x height rectangle is processed when both arguments
\* are valid, and the full image in every other case.
C4_AsClaimed ==
  Blurred =>
    wr = IF ArgsValid THEN RectOffsets(img, call.width, call.height)
         ELSE RectOffsets(img, img.w, img.h)

\* C4 amended: each side is chosen on its own: the processed rectangle is
\* width' x height' where width' is the width argument when it is positive and
\* at most the image width and the image width otherwise, and height' likewise.
C4_RectanglePerDimension ==
  Blurred =>
    /\ wr = RectOffsets(img, Side(call.width, img.w), Side(call.height, img.h))
    /\ rd = wr

C4_Witness ==
  /\ Blurred /\ ArgsValid /\ call.width < img.w /\ call.height < img.h
  /\ wr = RectOffsets(img, call.width, call.height)

\* the image before the last call with every byte outside the set keep zeroed
ScrubOutside(keep) ==
  [img EXCEPT !.data = Bytes([k \in 1..Len(call.data) |->
                                IF (k - 1) \in keep THEN call.data[k] ELSE 0],
                             Len(call.data))]

\* C5: a successful blur leaves every byte outside the effective rectangle
\* (row padding, pixels right of it, rows below it) as it was, and the bytes
\* inside are the same as for an image that differs outside the rectangle.
C5_OnlyRectangleWritten ==
  Blurred =>
    LET rect == RectOffsets(img, Side(call.width, img.w), Side(call.height, img.h))
        other == BlurOutcome(ScrubOutside(rect), call.a, call.b,
                             call.sigma, call.width, call.height, call.getDataOk)
    IN /\ \A k \in 1..Len(img.data) :
            (k - 1) \notin rect => img.data[k] = call.data[k]
       /\ \A k \in 1..Len(img.data) :
            (k - 1) \in rect => img.data[k] = other.data[k]

C5_Witness ==
  /\ Blurred /\ call.sigma = 20
  /\ img.stride > img.w * BytesPerPixel(img.fmt)
  /\ call.width = 1 /\ img.w > 1 /\ call.height = -1 /\ img.h > 1
  /\ img.data # call.data

----------------------------------------------------------------------------
(* Paths.  A coordinate is an integer number of 1/64 units, so that three   *)
(* levels of midpoint splitting of the points used here are exact, as they  *)
(* are in double arithmetic.                                                *)

\* longest source command stream
MaxCmds == 3
\* deepest level of flattenQuadRecursive / flattenCubicRecursive that is followed
MaxDepth == 3

\* BL_PATH_CMD_*; CONIC stands for every value the switch does not name
PathCmds == {"MOVE", "ON", "QUAD", "CONIC", "CUBIC", "CLOSE"}

\* the vertex BLPath::close() stores with a close command (NaN, NaN)
NaNPt == <<0 - 1, 0 - 1>>

\* vertices of the source paths: (2, 0) and (1, 2)
Pts == {<<128, 0>>, <<64, 128>>}

PathElems ==
  {[cmd |-> c, v |-> p] : c \in {"MOVE", "ON", "QUAD", "CUBIC"}, p \in Pts}
  \cup {[cmd |-> "CLOSE", v |-> NaNPt], [cmd |-> "CONIC", v |-> <<128, 0>>]}

Streams == UNION {[1..n -> PathElems] : n \in 0..MaxCmds}

\* tolerances handed in as doubles: -1.0, 0.0, 0.25, 1.0
Tols == {0 - 64, 0, 16, 64}

\* path.cpp:1877: double tolerance = 0.25
DefaultTolerance == 16

\* The calls of path_flatten(env, argc, argv).  tolTerm is argv[1]: a double,
\* the atom nil, or "none" when argc = 1 and there is no argv[1].  srcOk says
\* whether argv[0] is a Path resource, allocOk whether NifResource<Path>::alloc
\* yields a resource.  Arguments a call never looks at are fixed.
FlattenCalls ==
  {[argc |-> 1, srcOk |-> TRUE, tolTerm |-> "none", allocOk |-> TRUE],
   [argc |-> 2, srcOk |-> FALSE, tolTerm |-> "16", allocOk |-> TRUE],
   [argc |-> 2, srcOk |-> TRUE, tolTerm |-> "nil", allocOk |-> TRUE]}
  \cup {[argc |-> 2, srcOk |-> TRUE, tolTerm |-> ToString(t), allocOk |-> ok] :
          t \in Tols, ok \in BOOLEAN}

\* enif_get_double: the term is a double (TRUE) or not
IsDouble(term) == \E t \in Tols : term = ToString(t)

DoubleOf(term) == CHOOSE t \in Tols : term = ToString(t)

Abs(x) == IF x < 0 THEN 0 - x ELSE x

\* mix(a, b, 0.5)
mix(a, b) == <<a[1] + (b[1] - a[1]) \div 2, a[2] + (b[2] - a[2]) \div 2>>

\* area2 / len <= t for len = sqrt(len2) > 0, and 0.0 <= t for len = 0
RatioLeq_lt(area2, len2, t) ==
  IF len2 > 0 THEN t >= 0 /\ area2 * area2 < t * t * len2
  ELSE 0 <= t

RatioLeq(area2, len2, t) ==
  IF len2 > 0 THEN t >= 0 /\ area2 * area2 <= t * t * len2
  ELSE 0 <= t

\* quadFlatness(p0, p1, p2) <= t
quadFlatnessLeq(p0, p1, p2, t) ==
  LET ux == p2[1] - p0[1]
      uy == p2[2] - p0[2]
      vx == p1[1] - p0[1]
      vy == p1[2] - p0[2]
  IN RatioLeq(Abs(ux * vy - uy * vx), ux * ux + uy * uy, t)

\* cubicFlatness(p0, p1, p2, p3) <= t: the larger of the two distances
cubicFlatnessLeq(p0, p1, p2, p3, t) ==
  LET ux == p3[1] - p0[1]
      uy == p3[2] - p0[2]
      len2 == ux * ux + uy * uy
      area2(p) == Abs(ux * (p[2] - p0[2]) - uy * (p[1] - p0[1]))
  IN IF len2 = 0 THEN 0 <= t
     ELSE RatioLeq(area2(p1), len2, t) /\ RatioLeq(area2(p2), len2, t)

\* BLPath::move_to, line_to, close on the destination path
move_to(d, p) == Append(d, [cmd |-> "MOVE", v |-> p])

line_to_dedup(d, p) ==
  IF d # <<>> /\ d[Len(d)].v = p THEN d ELSE Append(d, [cmd |-> "ON", v |-> p])

line_to(d, p) == Append(d, [cmd |-> "ON", v |-> p])

close_path_once(d) ==
  IF d # <<>> /\ d[Len(d)].cmd = "CLOSE" THEN d
  ELSE Append(d, [cmd |-> "CLOSE", v |-> NaNPt])

close_path(d) == Append(d, [cmd |-> "CLOSE", v |-> NaNPt])

\* the default branch of the switch: the command is skipped
skip_command_copy(d, e) == Append(d, e)

skip_command(d, e) == d

\* path.cpp:1826: the quad control has no 'on' companion
QuadMalformed(cmds, i) ==
  i + 1 >= Len(cmds) \/ cmds[i + 2].cmd # "ON"

\* path.cpp:1839: the cubic control has no 'cubic', 'on' companions
CubicMalformed_onecontrol(cmds, i) ==
  i + 2 >= Len(cmds) \/ cmds[i + 3].cmd # "ON"

CubicMalformed(cmds, i) ==
  i + 2 >= Len(cmds) \/ cmds[i + 2].cmd # "CUBIC" \/ cmds[i + 3].cmd # "ON"

\* path.cpp:1852: a close is emitted when hasSub is set
CloseEmits_always(h) == TRUE

CloseEmits(h) == h

\* the Path resource behind argv[0] exists before the call: object 1
SrcId == 1

\* nif_resource.h:35-46, NifResource<Path>::alloc: enif_alloc_resource gives a
\* new object, distinct from every live one, with one reference held by the
\* caller; T() constructs an empty path in it
alloc_alias(live) == [id |-> CHOOSE n \in live : TRUE, own |-> 1, terms |-> 0]

alloc(live) ==
  [id |-> (CHOOSE n \in live : \A m \in live : m <= n) + 1, own |-> 1, terms |-> 0]

new_path == <<>>

\* path.cpp:1795, dst.clear()
clear(d) == <<>>

\* path.cpp:1895, enif_make_resource: a term now refers to the resource; the
\* caller's own reference stays
enif_make_resource(r) == [r EXCEPT !.terms = r.terms + 1]

----------------------------------------------------------------------------
(* path_flatten and flattenPath, step by step *)

BlurUnused ==
  /\ img = MakeImage("NONE", 0, 0, 0, 1)
  /\ buf_a = <<>>
  /\ buf_b = <<>>
  /\ ret = "none"
  /\ call = NoCall
  /\ rd = {}
  /\ wr = {}
  /\ ncalls = 0
  /\ req_max = 0

InitFlatten ==
  /\ srcPath \in Streams
  /\ argv = NoArgs
  /\ tol = DefaultTolerance
  /\ dstPath = <<>>
  /\ fpc = "idle"
  /\ fi = 0
  /\ lastOn = <<0, 0>>
  /\ subStart = <<0, 0>>
  /\ hasSub = FALSE
  /\ stack = <<>>
  /\ fret = "none"
  /\ nifRet = "none"
  /\ dstRes = NoRes

flatLocals == <<fi, lastOn, subStart, hasSub, stack>>

\* path.cpp:1867-1890: the argument checks, the allocation and the entry into
\* flattenPath (dst.clear() and the locals, path.cpp:1795-1803)
path_flatten(c) ==
  /\ fpc = "idle"
  /\ argv' = c
  /\ IF c.argc # 2
     THEN /\ nifRet' = "bad_arity" /\ fpc' = "done"
          /\ UNCHANGED <<tol, dstPath, flatLocals, fret, dstRes>>
     ELSE IF ~c.srcOk
     THEN /\ nifRet' = "path_flatten_bad_src_path" /\ fpc' = "done"
          /\ UNCHANGED <<tol, dstPath, flatLocals, fret, dstRes>>
     ELSE IF ~IsDouble(c.tolTerm)
     THEN /\ nifRet' = "path_flatten_invalid_tolerance" /\ fpc' = "done"
          /\ UNCHANGED <<tol, dstPath, flatLocals, fret, dstRes>>
     ELSE IF ~c.allocOk
     THEN /\ nifRet' = "dst_path_alloc_failed" /\ fpc' = "done"
          /\ tol' = DoubleOf(c.tolTerm)
          /\ UNCHANGED <<dstPath, flatLocals, fret, dstRes>>
     ELSE /\ tol' = DoubleOf(c.tolTerm)
          /\ dstRes' = alloc({SrcId})
          /\ dstPath' = clear(new_path)
          /\ fi' = 0
          /\ lastOn' = <<0, 0>>
          /\ subStart' = <<0, 0>>
          /\ hasSub' = FALSE
          /\ stack' = <<>>
          /\ fpc' = "loop"
          /\ UNCHANGED <<fret, nifRet>>
  /\ UNCHANGED srcPath

AtCmd(c) == fpc = "loop" /\ fi < Len(srcPath) /\ srcPath[fi + 1].cmd = c

\* path.cpp:1809-1815
case_move ==
  /\ AtCmd("MOVE")
  /\ dstPath' = move_to(dstPath, srcPath[fi + 1].v)
  /\ lastOn' = srcPath[fi + 1].v
  /\ subStart' = srcPath[fi + 1].v
  /\ hasSub' = TRUE
  /\ fi' = fi + 1
  /\ UNCHANGED <<dstRes, srcPath, argv, tol, fpc, stack, fret, nifRet>>

\* path.cpp:1817-1821
case_on ==
  /\ AtCmd("ON")
  /\ dstPath' = line_to(dstPath, srcPath[fi + 1].v)
  /\ lastOn' = srcPath[fi + 1].v
  /\ fi' = fi + 1
  /\ UNCHANGED <<dstRes, srcPath, argv, tol, fpc, subStart, hasSub, stack, fret, nifRet>>

\* flattenPath returns BL_ERROR_INVALID_STATE and path_flatten "flatten_failed"
ReturnMalformed ==
  /\ fret' = "BL_ERROR_INVALID_STATE"
  /\ nifRet' = "flatten_failed"
  /\ fpc' = "done"
  /\ UNCHANGED <<dstRes, srcPath, argv, tol, dstPath, flatLocals>>

\* path.cpp:1823-1831: the check, then the call of flattenQuadRecursive
case_quad ==
  /\ AtCmd("QUAD")
  /\ IF QuadMalformed(srcPath, fi)
     THEN ReturnMalformed
     ELSE /\ stack' = <<[p |-> <<lastOn, srcPath[fi + 1].v, srcPath[fi + 2].v>>,
                         depth |-> 0]>>
          /\ fpc' = "quad"
          /\ UNCHANGED <<dstRes, srcPath, argv, tol, dstPath, fi, lastOn, subStart,
                         hasSub, fret, nifRet>>

\* path.cpp:1836-1846: the check, then the call of flattenCubicRecursive
case_cubic ==
  /\ AtCmd("CUBIC")
  /\ IF CubicMalformed(srcPath, fi)
     THEN ReturnMalformed
     ELSE /\ stack' = <<[p |-> <<lastOn, srcPath[fi + 1].v, srcPath[fi + 2].v,
                                 srcPath[fi + 3].v>>,
                         depth |-> 0]>>
          /\ fpc' = "cubic"
          /\ UNCHANGED <<dstRes, srcPath, argv, tol, dstPath, fi, lastOn, subStart,
                         hasSub, fret, nifRet>>

\* path.cpp:1851-1857
case_close_keep ==
  /\ AtCmd("CLOSE")
  /\ IF CloseEmits(hasSub)
     THEN dstPath' = close_path(dstPath)
     ELSE UNCHANGED dstPath
  /\ fi' = fi + 1
  /\ UNCHANGED <<dstRes, srcPath, argv, tol, fpc, lastOn, subStart, hasSub, stack, fret,
                 nifRet>>

case_close ==
  /\ AtCmd("CLOSE")
  /\ IF CloseEmits(hasSub)
     THEN /\ dstPath' = close_path(dstPath)
          /\ lastOn' = subStart
     ELSE UNCHANGED <<dstPath, lastOn>>
  /\ fi' = fi + 1
  /\ UNCHANGED <<dstRes, srcPath, argv, tol, fpc, subStart, hasSub, stack, fret, nifRet>>

\* path.cpp:1859-1860
case_default ==
  /\ fpc = "loop" /\ fi < Len(srcPath)
  /\ srcPath[fi + 1].cmd \notin {"MOVE", "ON", "QUAD", "CUBIC", "CLOSE"}
  /\ dstPath' = skip_command(dstPath, srcPath[fi + 1])
  /\ fi' = fi + 1
  /\ UNCHANGED <<dstRes, srcPath, argv, tol, fpc, lastOn, subStart, hasSub, stack,
                 fret, nifRet>>

\* path.cpp:1761-1765: the arguments of the first recursive call
quad_first(q) == <<q[1], mix(q[1], q[2]), mix(mix(q[1], q[2]), mix(q[2], q[3]))>>

\* path.cpp:1781-1789: the arguments of the first recursive call
cubic_first(q) ==
  <<q[1], mix(q[1], q[2]), mix(mix(q[1], q[2]), mix(q[2], q[3])),
    mix(mix(mix(q[1], q[2]), mix(q[2], q[3])), mix(mix(q[2], q[3]), mix(q[3], q[4])))>>

\* path.cpp:1756-1759: the sub-curve on top is flat: one line_to, return
quad_leaf ==
  /\ fpc = "quad" /\ stack # <<>>
  /\ Head(stack).depth <= MaxDepth
  /\ LET q == Head(stack).p
     IN /\ quadFlatnessLeq(q[1], q[2], q[3], tol)
        /\ dstPath' = line_to(dstPath, q[3])
  /\ stack' = Tail(stack)
  /\ UNCHANGED <<dstRes, srcPath, argv, tol, fpc, fi, lastOn, subStart, hasSub, fret, nifRet>>

\* path.cpp:1761-1766: split at the midpoint, first half first
quad_split ==
  /\ fpc = "quad" /\ stack # <<>>
  /\ Head(stack).depth < MaxDepth
  /\ LET q == Head(stack).p
         d == Head(stack).depth
         p01 == mix(q[1], q[2])
         p12 == mix(q[2], q[3])
         p012 == mix(p01, p12)
     IN /\ ~quadFlatnessLeq(q[1], q[2], q[3], tol)
        /\ stack' = <<[p |-> <<q[1], p01, p012>>, depth |-> d + 1],
                      [p |-> <<p012, p12, q[3]>>, depth |-> d + 1]>>
                    \o Tail(stack)
  /\ UNCHANGED <<dstRes, srcPath, argv, tol, dstPath, fpc, fi, lastOn, subStart, hasSub,
                 fret, nifRet>>

\* path.cpp:1761-1765 below level MaxDepth: the code splits as before; only
\* the first recursive call is followed, and only as long as it splits again
\* (a level below MaxDepth never returns in the model)
quad_below ==
  /\ fpc = "quad" /\ stack # <<>>
  /\ Head(stack).depth >= MaxDepth
  /\ ~quadFlatnessLeq(Head(stack).p[1], Head(stack).p[2], Head(stack).p[3], tol)
  /\ stack' = <<[p |-> quad_first(Head(stack).p), depth |-> MaxDepth + 1]>>
                \o Tail(stack)
  /\ UNCHANGED <<dstRes, srcPath, argv, tol, dstPath, fpc, fi, lastOn, subStart, hasSub,
                 fret, nifRet>>

\* path.cpp:1832-1834: flattenQuadRecursive has returned
quad_return_one ==
  /\ fpc = "quad" /\ stack = <<>>
  /\ lastOn' = srcPath[fi + 2].v
  /\ fi' = fi + 1
  /\ fpc' = "loop"
  /\ UNCHANGED <<dstRes, srcPath, argv, tol, dstPath, subStart, hasSub, stack, fret, nifRet>>

quad_return ==
  /\ fpc = "quad" /\ stack = <<>>
  /\ lastOn' = srcPath[fi + 2].v
  /\ fi' = fi + 2
  /\ fpc' = "loop"
  /\ UNCHANGED <<dstRes, srcPath, argv, tol, dstPath, subStart, hasSub, stack, fret, nifRet>>

\* path.cpp:1776-1779
cubic_leaf ==
  /\ fpc = "cubic" /\ stack # <<>>
  /\ Head(stack).depth <= MaxDepth
  /\ LET q == Head(stack).p
     IN /\ cubicFlatnessLeq(q[1], q[2], q[3], q[4], tol)
        /\ dstPath' = line_to(dstPath, q[4])
  /\ stack' = Tail(stack)
  /\ UNCHANGED <<dstRes, srcPath, argv, tol, fpc, fi, lastOn, subStart, hasSub, fret, nifRet>>

\* path.cpp:1781-1790
cubic_split ==
  /\ fpc = "cubic" /\ stack # <<>>
  /\ Head(stack).depth < MaxDepth
  /\ LET q == Head(stack).p
         d == Head(stack).depth
         p01 == mix(q[1], q[2])
         p12 == mix(q[2], q[3])
         p23 == mix(q[3], q[4])
         p012 == mix(p01, p12)
         p123 == mix(p12, p23)
         p0123 == mix(p012, p123)
     IN /\ ~cubicFlatnessLeq(q[1], q[2], q[3], q[4], tol)
        /\ stack' = <<[p |-> <<q[1], p01, p012, p0123>>, depth |-> d + 1],
                      [p |-> <<p0123, p123, p23, q[4]>>, depth |-> d + 1]>>
                    \o Tail(stack)
  /\ UNCHANGED <<dstRes, srcPath, argv, tol, dstPath, fpc, fi, lastOn, subStart, hasSub,
                 fret, nifRet>>

\* path.cpp:1781-1789 below level MaxDepth, followed like quad_below
cubic_below ==
  /\ fpc = "cubic" /\ stack # <<>>
  /\ Head(stack).depth >= MaxDepth
  /\ ~cubicFlatnessLeq(Head(stack).p[1], Head(stack).p[2], Head(stack).p[3],
                       Head(stack).p[4], tol)
  /\ stack' = <<[p |-> cubic_first(Head(stack).p), depth |-> MaxDepth + 1]>>
                \o Tail(stack)
  /\ UNCHANGED <<dstRes, srcPath, argv, tol, dstPath, fpc, fi, lastOn, subStart, hasSub,
                 fret, nifRet>>

\* path.cpp:1846-1848: flattenCubicRecursive has returned
cubic_return ==
  /\ fpc = "cubic" /\ stack = <<>>
  /\ lastOn' = srcPath[fi + 3].v
  /\ fi' = fi + 3
  /\ fpc' = "loop"
  /\ UNCHANGED <<dstRes, srcPath, argv, tol, dstPath, subStart, hasSub, stack, fret, nifRet>>

\* path.cpp:1864 and 1895-1896: the loop is over, flattenPath returns
\* BL_SUCCESS and path_flatten {ok, term}
loop_end ==
  /\ fpc = "loop" /\ fi >= Len(srcPath)
  /\ fret' = "BL_SUCCESS"
  /\ nifRet' = "ok"
  /\ dstRes' = enif_make_resource(dstRes)
  /\ fpc' = "done"
  /\ UNCHANGED <<srcPath, argv, tol, dstPath, flatLocals>>

NextFlatten ==
  \/ \E c \in FlattenCalls : path_flatten(c) /\ UNCHANGED <<blurVars, randVars>>
  \/ case_move /\ UNCHANGED <<blurVars, randVars>>
  \/ case_on /\ UNCHANGED <<blurVars, randVars>>
  \/ case_quad /\ UNCHANGED <<blurVars, randVars>>
  \/ case_cubic /\ UNCHANGED <<blurVars, randVars>>
  \/ case_close /\ UNCHANGED <<blurVars, randVars>>
  \/ case_default /\ UNCHANGED <<blurVars, randVars>>
  \/ quad_leaf /\ UNCHANGED <<blurVars, randVars>>
  \/ quad_below /\ UNCHANGED <<blurVars, randVars>>
  \/ cubic_below /\ UNCHANGED <<blurVars, randVars>>
  \/ quad_split /\ UNCHANGED <<blurVars, randVars>>
  \/ quad_return /\ UNCHANGED <<blurVars, randVars>>
  \/ cubic_leaf /\ UNCHANGED <<blurVars, randVars>>
  \/ cubic_split /\ UNCHANGED <<blurVars, randVars>>
  \/ cubic_return /\ UNCHANGED <<blurVars, randVars>>
  \/ loop_end /\ UNCHANGED <<blurVars, randVars>>

InitFlattenOnly == InitFlatten /\ BlurUnused /\ RandUnused

SpecFlatten == InitFlattenOnly /\ [][NextFlatten]_vars

----------------------------------------------------------------------------
(* path_flatten on paths that go on after a closed figure: a move, a line   *)
(* to a different point and a close, followed by any stream of commands.    *)

ResumedStreams ==
  {<<[cmd |-> "MOVE", v |-> e[1]], [cmd |-> "ON", v |-> e[2]],
     [cmd |-> "CLOSE", v |-> NaNPt]>> \o s :
     e \in {d \in Pts \X Pts : d[1] # d[2]}, s \in Streams}

InitResumed ==
  /\ srcPath \in ResumedStreams
  /\ argv = NoArgs
  /\ tol = DefaultTolerance
  /\ dstPath = <<>>
  /\ fpc = "idle"
  /\ fi = 0
  /\ lastOn = <<0, 0>>
  /\ subStart = <<0, 0>>
  /\ hasSub = FALSE
  /\ stack = <<>>
  /\ fret = "none"
  /\ nifRet = "none"
  /\ dstRes = NoRes

InitResumedOnly == InitResumed /\ BlurUnused /\ RandUnused

SpecResumed == InitResumedOnly /\ [][NextFlatten]_vars

----------------------------------------------------------------------------
(* Properties of flattenPath and path_flatten *)

\* flattenPath was entered and has returned
Flattened == fpc = "done" /\ fret # "none"

HasCmd(path, c) == \E k \in 1..Len(path) : path[k].cmd = c

OnlyLines(path) == \A k \in 1..Len(path) : path[k].cmd \in {"MOVE", "ON", "CLOSE"}

NoCloseBeforeMove(path) ==
  \A k \in 1..Len(path) :
    path[k].cmd = "CLOSE" => \E j \in 1..(k - 1) : path[j].cmd = "MOVE"

\* The left-to-right scan of a command stream from position i (1-based): TRUE
\* when it meets a quad control or a cubic control without its companions.
RECURSIVE ScanMalformed(_, _)
ScanMalformed(path, i) ==
  IF i > Len(path) THEN FALSE
  ELSE IF path[i].cmd = "QUAD"
       THEN IF i + 1 <= Len(path) /\ path[i + 1].cmd = "ON"
            THEN ScanMalformed(path, i + 2) ELSE TRUE
  ELSE IF path[i].cmd = "CUBIC"
       THEN IF /\ i + 2 <= Len(path)
               /\ path[i + 1].cmd = "CUBIC"
               /\ path[i + 2].cmd = "ON"
            THEN ScanMalformed(path, i + 3) ELSE TRUE
  ELSE ScanMalformed(path, i + 1)

\* C6: when flattenPath succeeds the output holds move, line-to and close
\* commands only.
C6_OutputHasNoCurves ==
  fret = "BL_SUCCESS" => OnlyLines(dstPath)

C6_Witness ==
  /\ fret = "BL_SUCCESS"
  /\ HasCmd(srcPath, "QUAD") /\ HasCmd(srcPath, "CONIC")
  /\ Len(dstPath) > 1

\* C7 as stated: every stream of move, line and close commands is flattened
\* successfully into the identical sequence, whatever the tolerance.
C7_AsClaimed ==
  (Flattened /\ OnlyLines(srcPath)) =>
    (fret = "BL_SUCCESS" /\ dstPath = srcPath)

\* C7 amended: every stream of move, line and close commands in which no close
\* comes before the first move is flattened successfully into the identical
\* sequence, whatever the tolerance.
C7_PolylineIdentity ==
  (Flattened /\ OnlyLines(srcPath) /\ NoCloseBeforeMove(srcPath)) =>
    (fret = "BL_SUCCESS" /\ dstPath = srcPath)

C7_Witness ==
  /\ Flattened /\ tol < 0 /\ Len(srcPath) = MaxCmds
  /\ srcPath[1].cmd = "MOVE" /\ HasCmd(srcPath, "ON") /\ HasCmd(srcPath, "CLOSE")
  /\ dstPath = srcPath

\* C8: a call of flattenPath that returns gives the malformed-curve error
\* exactly when the left-to-right scan of the stream, which skips the
\* companions of every well-formed curve, meets a quad control not followed by
\* 'on' or a cubic control not followed by 'cubic-control', 'on'; otherwise it
\* gives success.
C8_MalformedIffScan ==
  Flattened =>
    /\ fret = "BL_ERROR_INVALID_STATE" <=> ScanMalformed(srcPath, 1)
    /\ fret = "BL_SUCCESS" <=> ~ScanMalformed(srcPath, 1)

C8_Witness ==
  /\ Flattened /\ fret = "BL_ERROR_INVALID_STATE"
  /\ Len(srcPath) = 3
  /\ srcPath[1].cmd = "QUAD" /\ srcPath[2].cmd = "ON" /\ srcPath[3].cmd = "QUAD"
  /\ Len(dstPath) > 1

\* the caller supplied no tolerance: there is no argv[1], or it is no double
NoToleranceSupplied == argv.srcOk /\ argv.tolTerm \in {"none", "nil"}

\* C9: when the caller supplies no tolerance path_flatten flattens with 0.25:
\* flattenPath is run with tolerance 0.25 and its outcome is returned.
C9_AsClaimed ==
  (fpc = "done" /\ NoToleranceSupplied) =>
    /\ tol = DefaultTolerance
    /\ fret # "none"
    /\ nifRet \in {"ok", "flatten_failed"}

\* the curve (p0, p1, p2) stays within t of the line segment p0-p2 that
\* replaces it: its farthest point, B(1/2), is area2 / (2 len) from the chord,
\* and |p1 - p0| / 2 from the point p0 when p0 = p2.
QuadDeviationLeq(p0, p1, p2, t) ==
  LET ux == p2[1] - p0[1]
      uy == p2[2] - p0[2]
      vx == p1[1] - p0[1]
      vy == p1[2] - p0[2]
      area2 == Abs(ux * vy - uy * vx)
      len2 == ux * ux + uy * uy
  IN IF len2 > 0 THEN area2 * area2 <= 4 * t * t * len2
     ELSE vx * vx + vy * vy <= 4 * t * t

\* C10: with a tolerance > 0, every line-to that flattening emits for a piece
\* of a quadratic curve deviates from that piece by at most the tolerance,
\* also when the piece's start and end points coincide.
C10_AsClaimed ==
  (fpc = "quad" /\ stack # <<>> /\ tol > 0) =>
    LET q == Head(stack).p
    IN quadFlatnessLeq(q[1], q[2], q[3], tol) =>
         QuadDeviationLeq(q[1], q[2], q[3], tol)

\* C11: no step of path_flatten changes the source path, whether the call ends
\* with a result or with an error; the destination is an object other than the
\* source, it is empty when flattenPath starts, and a returned path is that
\* object.
C11_SourceUntouched ==
  [][/\ srcPath' = srcPath
     /\ (fpc = "idle" /\ fpc' = "loop") =>
          (dstPath' = <<>> /\ dstRes'.id \notin {0, SrcId})
     /\ (nifRet' = "ok") => (dstRes'.id \notin {0, SrcId} /\ dstRes'.terms = 1)
     /\ (dstRes.id # 0) => (dstRes'.id = dstRes.id)]_vars

C11_Witness ==
  /\ nifRet = "ok"
  /\ HasCmd(srcPath, "QUAD")
  /\ dstPath # <<>> /\ dstPath # srcPath
  /\ dstRes.id # SrcId

----------------------------------------------------------------------------
(* 64-bit unsigned words (uint64_t), as sequences of 64 bits, bit 0 first.
   Every operation is modulo 2^64, as in C++. *)

W == 64

\* the sequence f[1], ..., f[n] of a function f on 1..n
Bits(f) == f \o <<>>

Zero64 == Bits([i \in 1..W |-> 0])

\* the k low bits of a non-negative number below 2^31, k <= 31
NatBits(n, k) == Bits([i \in 1..k |-> (n \div (2 ^ (i - 1))) % 2])

\* the word of a non-negative number below 2^31
Word(n) == Bits([i \in 1..W |-> IF i > 31 THEN 0 ELSE (n \div (2 ^ (i - 1))) % 2])

\* the word 0xAAAABBBBCCCCDDDD given as its four 16-bit groups, highest first
Hex4(a, b, c, d) == NatBits(d, 16) \o NatBits(c, 16) \o NatBits(b, 16) \o NatBits(a, 16)

\* the low 8 bits as a number, static_cast<uint8_t>(x)
LowByte(x) ==
  x[1] + 2 * x[2] + 4 * x[3] + 8 * x[4] + 16 * x[5] + 32 * x[6] + 64 * x[7] + 128 * x[8]

\* x ^ y
Xor(x, y) == Bits([i \in 1..W |-> (x[i] + y[i]) % 2])

\* x | y
Or(x, y) == Bits([i \in 1..W |-> IF x[i] + y[i] > 0 THEN 1 ELSE 0])

\* x & y
And(x, y) == Bits([i \in 1..W |-> x[i] * y[i]])

\* ~x
Not(x) == Bits([i \in 1..W |-> 1 - x[i]])

\* x << k and x >> k, 0 < k < 64
Shl(x, k) == Bits([i \in 1..W |-> IF i > k THEN x[i - k] ELSE 0])

Shr(x, k) == Bits([i \in 1..W |-> IF i + k <= W THEN x[i + k] ELSE 0])

\* the eight bytes of x as numbers, lowest first, and the word of eight bytes
Limbs(x) ==
  Bits([j \in 1..8 |->
          LET o == 8 * (j - 1)
          IN x[o + 1] + 2 * x[o + 2] + 4 * x[o + 3] + 8 * x[o + 4] + 16 * x[o + 5]
             + 32 * x[o + 6] + 64 * x[o + 7] + 128 * x[o + 8]])

OfLimbs(l) ==
  Bits([i \in 1..W |-> (l[((i - 1) \div 8) + 1] \div (2 ^ ((i - 1) % 8))) % 2])

\* x + y, the carry out of bit 63 dropped: byte by byte with carry
RECURSIVE AddFrom(_, _, _, _)
AddFrom(a, b, j, carry) ==
  IF j > 8 THEN <<>>
  ELSE LET t == a[j] + b[j] + carry
       IN <<t % 256>> \o AddFrom(a, b, j + 1, t \div 256)

Add(x, y) == OfLimbs(AddFrom(Limbs(x), Limbs(y), 1, 0))

\* x - y and -x in two's complement
Neg(x) == Add(Not(x), Word(1))

Sub(x, y) == Add(x, Neg(y))

\* x * y, the bits above bit 63 dropped: long multiplication on bytes, column
\* k being the sum of a[i] * b[k + 1 - i] and the carry of column k - 1
RECURSIVE ColSum(_, _, _, _)
ColSum(a, b, k, i) ==
  IF i > k THEN 0 ELSE a[i] * b[k + 1 - i] + ColSum(a, b, k, i + 1)

RECURSIVE MulFrom(_, _, _, _)
MulFrom(a, b, k, carry) ==
  IF k > 8 THEN <<>>
  ELSE LET t == ColSum(a, b, k, 1) + carry
       IN <<t % 256>> \o MulFrom(a, b, k + 1, t \div 256)

Mul(x, y) == OfLimbs(MulFrom(Limbs(x), Limbs(y), 1, 0))

\* x < y as unsigned numbers: decided by the highest bit in which they differ
RECURSIVE LtFrom(_, _, _)
LtFrom(x, y, i) ==
  IF i = 0 THEN FALSE
  ELSE IF x[i] # y[i] THEN x[i] < y[i]
  ELSE LtFrom(x, y, i - 1)

ULt(x, y) == LtFrom(x, y, W)

\* x < y as int64_t: a set bit 63 is a negative number
SLt(x, y) == IF x[W] # y[W] THEN x[W] = 1 ELSE LtFrom(x, y, W - 1)

\* rand.cpp:11-12
kMaxInt63 == Hex4(32767, 65535, 65535, 65535)

kPow2_63_u == Hex4(32768, 0, 0, 0)

----------------------------------------------------------------------------
(* The generator: rand.cpp:15-53 *)

\* rand.cpp:15-18
rotl(x, k) == Or(Shl(x, k), Shr(x, W - k))

\* rand.cpp:22: the constant added to the seed
kGamma == Hex4(40503, 31161, 32586, 31765)

\* rand.cpp:20-26: the new value of seed and the value returned
splitmix64_kept(seed) ==
  LET sd == Add(seed, kGamma)
      z1 == Mul(Xor(sd, Shr(sd, 30)), Hex4(48984, 18285, 7396, 58809))
      z2 == Mul(Xor(z1, Shr(z1, 27)), Hex4(38096, 18875, 4913, 4587))
  IN [seed |-> seed, z |-> Xor(z2, Shr(z2, 31))]

splitmix64(seed) ==
  LET sd == Add(seed, kGamma)
      z1 == Mul(Xor(sd, Shr(sd, 30)), Hex4(48984, 18285, 7396, 58809))
      z2 == Mul(Xor(z1, Shr(z1, 27)), Hex4(38096, 18875, 4913, 4587))
  IN [seed |-> sd, z |-> Xor(z2, Shr(z2, 31))]

\* rand.cpp:28-33: s[0..3] as the sequence <<s[0], s[1], s[2], s[3]>>
RECURSIVE SeedFrom(_, _)
\* state->s[i] = r.z, the loop goes on with the seed splitmix64 left
SeedNext(r, i) == <<r.z>> \o SeedFrom(r.seed, i + 1)

SeedFrom(seed, i) == IF i = 4 THEN <<>> ELSE SeedNext(splitmix64(seed), i)

\* without the loop the words stay as NifResource::alloc's T() left them
rand_seed_skipped(seed) == <<Zero64, Zero64, Zero64, Zero64>>

rand_seed(seed) == SeedFrom(seed, 0)

\* rand.cpp:35-48: the value returned and the state left behind.  s[k + 1] is
\* the code's s[k]; the assignments are taken in the code's order.
rand_u64_late_t(s) ==
  LET result == Mul(rotl(Mul(s[2], Word(5)), 7), Word(9))
      a2 == Xor(s[3], s[1])
      a3 == Xor(s[4], s[2])
      a1 == Xor(s[2], a2)
      a0 == Xor(s[1], a3)
      t == Shl(a1, 17)
      b2 == Xor(a2, t)
      b3 == rotl(a3, 45)
  IN [v |-> result, s |-> <<a0, a1, b2, b3>>]

rand_u64(s) ==
  LET result == Mul(rotl(Mul(s[2], Word(5)), 7), Word(9))
      t == Shl(s[2], 17)
      a2 == Xor(s[3], s[1])
      a3 == Xor(s[4], s[2])
      a1 == Xor(s[2], a2)
      a0 == Xor(s[1], a3)
      b2 == Xor(a2, t)
      b3 == rotl(a3, 45)
  IN [v |-> result, s |-> <<a0, a1, b2, b3>>]

\* rand.cpp:50-53
ClearTop(r) == [v |-> And(r.v, kMaxInt63), s |-> r.s]

rand_u63(s) == ClearTop(rand_u64(s))

----------------------------------------------------------------------------
(* The ziggurat tables.  rand.cpp includes them from ziggurat_tables.h, which
   is not among the sources; the design names the tables and gives no values.
   What follows stands in for them: the bin counts of the published tables,
   and, for each table lookup and each floating-point test on table values, a
   fixed function of the very integers the code feeds into it. *)

kNormBins == 253

kNormJInflection == 204

kExpLayers == 252

\* blendend_rand::kNormIpmf[j] and kExpIpmf[j], int64_t thresholds
kNormIpmf(j) == Hex4(j * 128, 0, 0, 0)

kExpIpmf(j) == Hex4(j * 64, 0, 0, 0)

\* blendend_rand::kNormMap[j] and kExpMap[j], uint8_t
kNormMap(j) == (j * 37 + 11) % 256

kExpMap(j) == (j * 41 + 7) % 256

\* blendend_rand::kNormMaxIE and kNormMinIE, int64_t
kNormMaxIE == Hex4(8061, 0, 0, 0)

kNormMinIE == Hex4(2701, 0, 0, 0)

\* y < std::exp(-0.5 * x * x) for x = sample_x(kNormX + j, xu) and
\* y = sample_y(kNormY, j, yu)
NormBelow(j, xu, yu) == ULt(yu, xu)

\* y_sample <= std::exp(-x) for x = sample_x(kExpX + j, xu) and
\* y_sample = sample_y(kExpY, j, yu)
ExpBelow(j, xu, yu) == ~ULt(xu, yu)

\* e2 < 0.5 * x * x for x = e1 / kNormX0, e1 and e2 values of exponential()
TailBelow(e1, e2) == e2.k < e1.k \/ (e2.k = e1.k /\ ULt(e2.u, e1.u))

----------------------------------------------------------------------------
(* The samplers, rand.cpp:55-192.  A context c is [s, log]: the state words
   and the generator steps made so far; every sampler returns the context it
   leaves with the value v it returns.  A double is kept as the table index
   and the integers it is computed from. *)

Ctx(r) == [s |-> r.s, log |-> r.log]

\* the context r with the value v
Result(r, v) == [s |-> r.s, log |-> r.log, v |-> v]

\* the context after the generator step r made from c by fn, with r's value
Drawn(fn, c, r) ==
  [s |-> r.s, v |-> r.v,
   log |-> Append(c.log, [fn |-> fn, pre |-> c.s, v |-> r.v, post |-> r.s])]

\* one call of rand_u64 / rand_u63 on the state of c
draw64(c) == Drawn("rand_u64", c, rand_u64(c.s))

draw63(c) == Drawn("rand_u63", c, rand_u63(c.s))

\* rand.cpp:55-59
sum_u1_udiff(u1, udiff) ==
  IF ~SLt(udiff, Zero64) THEN Add(u1, udiff) ELSE Sub(u1, Neg(udiff))

\* rand.cpp:71-76: d is the context after line 73, j the byte of line 74
norm_pick(d, j) ==
  Result(d, IF ~SLt(d.v, kNormIpmf(j)) THEN kNormMap(j) ELSE j)

norm_sample_byte(d) == norm_pick(d, LowByte(d.v))

norm_sample_A(c) == norm_sample_byte(draw64(c))

\* rand.cpp:78-83
exp_pick(d, j) ==
  Result(d, IF ~SLt(d.v, kExpIpmf(j)) THEN kExpMap(j) ELSE j)

exp_sample_byte(d) == exp_pick(d, LowByte(d.v))

exp_sample_A(c) == exp_sample_byte(draw64(c))

\* rand.cpp:97
kExpMaxIE == Hex4(3033, 58716, 12407, 36903)

\* a value of exponential(): k times kExpX0 plus kExpX[i] * double(u) (layer)
\* or sample_x(kExpX + i, u) (overhang)
ExpValue(k, kind, i, u) == [k |-> k, kind |-> kind, i |-> i, u |-> u]

NoExp == ExpValue(0, "none", 0, Zero64)

\* rand.cpp:85-110.  exp_overhang draws u1 and the second value (lines 90-91);
\* the operators after it continue with the values computed so far.
RECURSIVE exp_overhang(_, _)
\* lines 98-109: d is the context after the second draw
exp_overhang_test(d, j, u1, u_diff) ==
  IF ~SLt(u_diff, kExpMaxIE) THEN Result(d, ExpValue(0, "overhang", j, u1))
  ELSE IF ExpBelow(j, u1, Sub(kPow2_63_u, Add(u1, u_diff)))
       THEN Result(d, ExpValue(0, "overhang", j, u1))
  ELSE exp_overhang(Ctx(d), j)

\* lines 92-95: u_diff = -u_diff; u1 -= u_diff
exp_overhang_fold(d, j, u1, u_diff) ==
  exp_overhang_test(d, j, Sub(u1, u_diff), u_diff)

exp_overhang_sign(d, j, u1, diff) ==
  IF SLt(diff, Zero64) THEN exp_overhang_fold(d, j, u1, Neg(diff))
  ELSE exp_overhang_test(d, j, u1, diff)

\* line 91: d2 is the context after the second draw
exp_overhang_diff(d2, j, u1) == exp_overhang_sign(d2, j, u1, Sub(d2.v, u1))

\* line 90: d1 is the context after the first draw
exp_overhang_second(d1, j) == exp_overhang_diff(draw63(Ctx(d1)), j, d1.v)

exp_overhang(c, j) == exp_overhang_second(draw63(c), j)

\* rand.cpp:112-122
RECURSIVE exponential(_)
\* line 121, kExpX0 + exponential(state)
exponential_more(e) == Result(e, [e.v EXCEPT !.k = e.v.k + 1])

\* lines 120-121: a is the context after exp_sample_A with j
exponential_slow(a) ==
  IF a.v > 0 THEN exp_overhang(Ctx(a), a.v)
  ELSE exponential_more(exponential(Ctx(a)))

\* lines 115-119: d is the context after line 114
exponential_layer(d, i) ==
  IF i < kExpLayers
  THEN Result(d, ExpValue(0, "layer", i, And(d.v, kMaxInt63)))
  ELSE exponential_slow(exp_sample_A(Ctx(d)))

\* line 115: i = u1 & 0xff
exponential_byte(d) == exponential_layer(d, LowByte(d.v))

exponential(c) == exponential_byte(draw64(c))

\* a value of normal(): path "bin" is kNormX[j] * double(int64(u)); "wedge"
\* is sign * sample_x(kNormX + j, u); "tail" is sign * (e / kNormX0 + kNormX0)
NormValue(path, sign, j, u, e) ==
  [path |-> path, sign |-> sign, j |-> j, u |-> u, e |-> e]

\* rand.cpp:139-153, the loop for j > kNormJInflection: d is the context after
\* the draw of line 141
RECURSIVE norm_loop_above(_, _, _, _)
\* line 152: n is the context after u1 = rand_u63(state)
norm_above_again(n, sign, j) == norm_loop_above(Ctx(n), sign, j, n.v)

norm_above_test(d, sign, j, u1, u_diff) ==
  IF ~SLt(u_diff, Zero64) THEN Result(d, NormValue("wedge", sign, j, u1, NoExp))
  ELSE IF /\ ~SLt(u_diff, Neg(kNormMaxIE))
          /\ NormBelow(j, u1, Sub(kPow2_63_u, sum_u1_udiff(u1, u_diff)))
       THEN Result(d, NormValue("wedge", sign, j, u1, NoExp))
  ELSE norm_above_again(draw63(Ctx(d)), sign, j)

norm_above_diff(d, sign, j, u1) == norm_above_test(d, sign, j, u1, Sub(d.v, u1))

norm_loop_above(c, sign, j, u1) == norm_above_diff(draw63(c), sign, j, u1)

\* rand.cpp:156-159, the loop for j = 0: e1 and e2 are the contexts after the
\* two calls of exponential
RECURSIVE norm_loop_tail(_, _)
norm_tail_test(e1v, e2, sign) ==
  IF TailBelow(e1v, e2.v) THEN norm_loop_tail(Ctx(e2), sign)
  ELSE Result(e2, NormValue("tail", sign, 0, Zero64, e1v))

norm_tail_second(e1, sign) == norm_tail_test(e1.v, exponential(Ctx(e1)), sign)

norm_loop_tail(c, sign) == norm_tail_second(exponential(c), sign)

\* rand.cpp:162-178, the loop for 0 < j < kNormJInflection
RECURSIVE norm_loop_below(_, _, _, _)
\* line 177: n is the context after u1 = rand_u63(state)
norm_below_again(n, sign, j) == norm_loop_below(Ctx(n), sign, j, n.v)

\* lines 168-177
norm_below_test(d, sign, j, u1, u_diff) ==
  IF SLt(kNormMinIE, u_diff) THEN Result(d, NormValue("wedge", sign, j, u1, NoExp))
  ELSE IF NormBelow(j, u1, Sub(kPow2_63_u, Add(u1, u_diff)))
       THEN Result(d, NormValue("wedge", sign, j, u1, NoExp))
  ELSE norm_below_again(draw63(Ctx(d)), sign, j)

\* lines 164-167: u_diff = -u_diff; u1 -= u_diff
norm_below_fold(d, sign, j, u1, u_diff) ==
  norm_below_test(d, sign, j, Sub(u1, u_diff), u_diff)

norm_below_sign(d, sign, j, u1, diff) ==
  IF SLt(diff, Zero64) THEN norm_below_fold(d, sign, j, u1, Neg(diff))
  ELSE norm_below_test(d, sign, j, u1, diff)

\* line 163: d is the context after the draw
norm_below_diff(d, sign, j, u1) == norm_below_sign(d, sign, j, u1, Sub(d.v, u1))

norm_loop_below(c, sign, j, u1) == norm_below_diff(draw63(c), sign, j, u1)

\* rand.cpp:181-188, the loop for j = kNormJInflection
RECURSIVE norm_loop_at(_, _, _, _)
\* line 187: n is the context after u1 = rand_u63(state)
norm_at_again(n, sign, j) == norm_loop_at(Ctx(n), sign, j, n.v)

norm_at_test(d, sign, j, u1) ==
  IF NormBelow(j, u1, d.v) THEN Result(d, NormValue("wedge", sign, j, u1, NoExp))
  ELSE norm_at_again(draw63(Ctx(d)), sign, j)

norm_loop_at(c, sign, j, u1) == norm_at_test(draw63(c), sign, j, u1)

\* rand.cpp:135-190: a is the context after norm_sample_A with j, u1 and sign
\* the values of lines 132-133
normal_slow(a, sign, u1) ==
  IF a.v > kNormJInflection THEN norm_loop_above(Ctx(a), sign, a.v, u1)
  ELSE IF a.v = 0 THEN norm_loop_tail(Ctx(a), sign)
  ELSE IF a.v < kNormJInflection THEN norm_loop_below(Ctx(a), sign, a.v, u1)
  ELSE norm_loop_at(Ctx(a), sign, a.v, u1)

\* rand.cpp:132-134: u1 &= kMaxInt63; sign from bit 8 of u1
normal_sign(d, u1) ==
  normal_slow(norm_sample_A(Ctx(d)), IF u1[9] = 1 THEN 1 ELSE 0 - 1, u1)

\* rand.cpp:127-130: d is the context after line 126
normal_bin(d, i) ==
  IF i < kNormBins THEN Result(d, NormValue("bin", 0, i, d.v, NoExp))
  ELSE normal_sign(d, And(d.v, kMaxInt63))

\* rand.cpp:124-192
normal_byte(d) == normal_bin(d, LowByte(d.v))

normal(c) == normal_byte(draw64(c))

----------------------------------------------------------------------------
(* rand_new and rand_normal_batch, rand.cpp:195-258 *)

\* the calls of rand_normal_batch one RandState receives in the model
MaxBatches == 2

\* An Erlang integer: sign, magnitude as a word, and over when the magnitude
\* does not fit in 64 bits; or a term that is no integer.
IntTerm(w) == [kind |-> "int", neg |-> FALSE, over |-> FALSE, mag |-> w]

NegTerm(w) == [kind |-> "int", neg |-> TRUE, over |-> FALSE, mag |-> w]

Atom == [kind |-> "atom", neg |-> FALSE, over |-> FALSE, mag |-> Zero64]

TooBig == [kind |-> "int", neg |-> FALSE, over |-> TRUE, mag |-> Zero64]

AllOnes == Not(Zero64)

\* the seeds rand_new is given: five small numbers (from 42 the first samples
\* fall in bins, from the others the first sample takes one of the four slow
\* paths of normal), -1 and 2^64 - 1, the least int64 and the integer below
\* it, 2^64, an atom, and 2^64 - kGamma, from which splitmix64 returns 0
\* for s[0]
SeedTerms ==
  {IntTerm(Word(42)), IntTerm(Word(10)), IntTerm(Word(206)), IntTerm(Word(7894)),
   IntTerm(Word(77782)), NegTerm(Word(1)), IntTerm(AllOnes), NegTerm(kPow2_63_u),
   NegTerm(Add(kPow2_63_u, Word(1))), TooBig, Atom, IntTerm(Neg(kGamma))}

\* the counts rand_normal_batch is given.  The binary of a count above 2 is
\* not available in the model (it is a gigabyte or more): allocOk is FALSE.
SmallCounts == {0, 1, 2}

CountCalls ==
  {[term |-> IntTerm(Word(n)), allocOk |-> ok] : n \in SmallCounts, ok \in BOOLEAN}
  \cup {[term |-> t, allocOk |-> FALSE] :
          t \in {IntTerm(Sub(Shl(Word(1), 30), Word(1))), IntTerm(Shl(Word(1), 30)),
                 IntTerm(Shr(AllOnes, 32)), IntTerm(Shl(Word(1), 32)),
                 NegTerm(Word(1)), Atom}}

\* enif_get_uint64: a non-negative integer below 2^64
enif_get_uint64(t) == t.kind = "int" /\ ~t.neg /\ ~t.over

\* enif_get_int64: an integer from -2^63 to 2^63 - 1
enif_get_int64(t) ==
  /\ t.kind = "int" /\ ~t.over
  /\ IF t.neg THEN ~ULt(kPow2_63_u, t.mag) ELSE ULt(t.mag, kPow2_63_u)

\* enif_get_uint: a non-negative integer below 2^32 (unsigned int)
enif_get_uint(t) ==
  t.kind = "int" /\ ~t.neg /\ ~t.over /\ ULt(t.mag, Shl(Word(1), 32))

\* rand.cpp:201-208: the uint64_t seed of a term rand_new accepts
SeedOfTerm(t) == IF enif_get_uint64(t) THEN t.mag ELSE Neg(t.mag)

\* std::numeric_limits<size_t>::max() and a value cut to the width of size_t
SizeMax(bits) == IF bits = W THEN AllOnes ELSE Shr(AllOnes, W - bits)

ToSize(x, bits) == And(x, SizeMax(bits))

\* rand.cpp:241: count > std::numeric_limits<size_t>::max() / sizeof(float)
CountTooLarge_nodiv(count, bits) == ULt(SizeMax(bits), count)

CountTooLarge(count, bits) == ULt(Shr(SizeMax(bits), 2), count)

\* rand.cpp:245: static_cast<size_t>(count) * sizeof(float)
TotalBytes(count, bits) == ToSize(Mul(ToSize(count, bits), Word(4)), bits)

\* a count the model can loop over, as a number
NatOf(w) == LET l == Limbs(w) IN l[1] + 256 * l[2] + 65536 * l[3]

\* nif_resource.h:27-33, NifResource<RandState>::get: the RandState behind a
\* resource term
get_first(h) == 1

get(h) == h

RandIdle == rcall.pc # "fill"

InitRand ==
  /\ size_bits \in {32, 64}
  /\ rng = [h \in Handles |-> NoState]
  /\ seedOf = [h \in Handles |-> NoTerm]
  /\ hist = [h \in Handles |-> <<>>]
  /\ rcall = NoRandCall

\* rand.cpp:195-217; the new resource is the first handle not yet in use
rand_new(t, allocOk) ==
  /\ RandIdle
  /\ \E h \in Handles : rng[h] = NoState
  /\ LET h == CHOOSE k \in Handles :
                rng[k] = NoState /\ \A m \in Handles : m < k => rng[m] # NoState
         c == [NoRandCall EXCEPT !.fn = "rand_new", !.pc = "done", !.term = t]
     IN IF ~enif_get_uint64(t) /\ ~enif_get_int64(t)
        THEN /\ rcall' = [c EXCEPT !.ret = "rand_new_invalid_seed"]
             /\ UNCHANGED <<rng, seedOf>>
        ELSE IF ~allocOk
        THEN /\ rcall' = [c EXCEPT !.ret = "rand_new_alloc_failed"]
             /\ UNCHANGED <<rng, seedOf>>
        ELSE /\ rng' = [rng EXCEPT ![h] = rand_seed(SeedOfTerm(t))]
             /\ seedOf' = [seedOf EXCEPT ![h] = t]
             /\ rcall' = [c EXCEPT !.ret = "ok", !.h = h]
  /\ UNCHANGED <<size_bits, hist>>

\* rand.cpp:219-252: the checks and the allocation of the output binary.  h
\* is the resource behind argv[0], 0 when argv[0] is no RandState.
rand_normal_batch(h, c) ==
  /\ RandIdle
  /\ h # 0 => (rng[h] # NoState /\ Len(hist[h]) < MaxBatches)
  /\ LET b == [NoRandCall EXCEPT !.fn = "rand_normal_batch", !.pc = "done",
                                 !.h = h, !.term = c.term,
                                 !.pre = IF h = 0 THEN NoState ELSE rng[get(h)]]
         count == c.term.mag
     IN IF h = 0
        THEN rcall' = [b EXCEPT !.ret = "rand_invalid_state"] /\ UNCHANGED hist
        ELSE IF ~enif_get_uint(c.term)
        THEN rcall' = [b EXCEPT !.ret = "rand_invalid_count"] /\ UNCHANGED hist
        ELSE IF count = Zero64
        THEN /\ rcall' = [b EXCEPT !.ret = "ok", !.total_bytes = Zero64]
             /\ hist' = [hist EXCEPT ![h] =
                           Append(@, [count |-> 0, out |-> <<>>, post |-> rng[get(h)]])]
        ELSE IF CountTooLarge(count, size_bits)
        THEN rcall' = [b EXCEPT !.ret = "rand_count_too_large"] /\ UNCHANGED hist
        ELSE IF ~c.allocOk
        THEN /\ rcall' = [b EXCEPT !.ret = "rand_alloc_failed",
                                   !.total_bytes = TotalBytes(count, size_bits)]
             /\ UNCHANGED hist
        ELSE /\ rcall' = [b EXCEPT !.pc = "fill", !.n = NatOf(count),
                                   !.total_bytes = TotalBytes(count, size_bits)]
             /\ UNCHANGED hist
  /\ UNCHANGED <<size_bits, rng, seedOf>>

\* rand.cpp:253-255, one turn of the loop: out_f[i] = static_cast<float>(
\* normal(rng)); log keeps the generator steps of this turn
fill_sample_stale ==
  /\ rcall.pc = "fill" /\ Len(rcall.out) < rcall.n
  /\ \E r \in {normal([s |-> rng[get(rcall.h)], log |-> <<>>])} :
       rcall' = [rcall EXCEPT !.out = Append(@, r.v), !.log = r.log]
  /\ UNCHANGED <<size_bits, rng, seedOf, hist>>

fill_sample ==
  /\ rcall.pc = "fill" /\ Len(rcall.out) < rcall.n
  /\ \E r \in {normal([s |-> rng[get(rcall.h)], log |-> <<>>])} :
       /\ rng' = [rng EXCEPT ![get(rcall.h)] = r.s]
       /\ rcall' = [rcall EXCEPT !.out = Append(@, r.v), !.log = r.log]
  /\ UNCHANGED <<size_bits, seedOf, hist>>

\* rand.cpp:257: the loop is over
batch_return_step ==
  /\ rcall.pc = "fill" /\ Len(rcall.out) >= rcall.n
  /\ rcall' = [rcall EXCEPT !.pc = "done", !.ret = "ok"]
  /\ rng' = [rng EXCEPT ![get(rcall.h)] = rand_u64(@).s]
  /\ hist' = [hist EXCEPT ![rcall.h] =
                Append(@, [count |-> rcall.n, out |-> rcall.out,
                           post |-> rand_u64(rng[get(rcall.h)]).s])]
  /\ UNCHANGED <<size_bits, seedOf>>

batch_return ==
  /\ rcall.pc = "fill" /\ Len(rcall.out) >= rcall.n
  /\ rcall' = [rcall EXCEPT !.pc = "done", !.ret = "ok"]
  /\ hist' = [hist EXCEPT ![rcall.h] =
                Append(@, [count |-> rcall.n, out |-> rcall.out,
                           post |-> rng[get(rcall.h)]])]
  /\ UNCHANGED <<size_bits, rng, seedOf>>

\* the calls a second RandState is studied with: two of the seeds, the counts
\* whose binary is available
PairSeedTerms == {IntTerm(Word(42)), IntTerm(Word(10))}

PairCountCalls == {c \in CountCalls : c.allocOk}

\* one RandState, every seed and every count
NextRand ==
  \/ \E t \in SeedTerms, ok \in BOOLEAN :
       rng[1] = NoState /\ rand_new(t, ok) /\ UNCHANGED <<blurVars, flatVars>>
  \/ \E h \in {0, 1}, c \in CountCalls :
       rand_normal_batch(h, c) /\ UNCHANGED <<blurVars, flatVars>>
  \/ fill_sample /\ UNCHANGED <<blurVars, flatVars>>
  \/ batch_return /\ UNCHANGED <<blurVars, flatVars>>

InitRandOnly == InitRand /\ BlurUnused /\ FlattenUnused

SpecRand == InitRandOnly /\ [][NextRand]_vars

\* two RandStates side by side
NextRandPair ==
  \/ \E t \in PairSeedTerms :
       rand_new(t, TRUE) /\ UNCHANGED <<blurVars, flatVars>>
  \/ \E h \in Handles, c \in PairCountCalls :
       rand_normal_batch(h, c) /\ UNCHANGED <<blurVars, flatVars>>
  \/ fill_sample /\ UNCHANGED <<blurVars, flatVars>>
  \/ batch_return /\ UNCHANGED <<blurVars, flatVars>>

SpecRandPair == InitRandOnly /\ [][NextRandPair]_vars

----------------------------------------------------------------------------
(* Claims about the generator *)

\* the counts of the first i calls recorded for handle h
CountsOf(h, i) == [k \in 1..i |-> hist[h][k].count]

\* C12: two RandStates made by rand_new from the same seed hold the same four
\* words as long as neither was given a call, and whenever their first i calls of
\* rand_normal_batch had the same counts, the i-th calls returned the same
\* samples and left the same four state words.
C12_Reproducible ==
  \A a \in Handles, b \in Handles :
    (rng[a] # NoState /\ rng[b] # NoState /\ seedOf[a] = seedOf[b]) =>
      /\ (RandIdle /\ hist[a] = <<>> /\ hist[b] = <<>>) => rng[a] = rng[b]
      /\ \A i \in 1..MaxBatches :
           (/\ i <= Len(hist[a]) /\ i <= Len(hist[b])
            /\ CountsOf(a, i) = CountsOf(b, i)) =>
             /\ hist[a][i].out = hist[b][i].out
             /\ hist[a][i].post = hist[b][i].post

\* both RandStates come from seed 10, both were given the counts 2 and 1, and
\* the first sample took a slow path of normal
C12_Witness ==
  /\ seedOf[1] = IntTerm(Word(10)) /\ seedOf[2] = IntTerm(Word(10))
  /\ RandIdle
  /\ Len(hist[1]) = 2 /\ Len(hist[2]) = 2
  /\ CountsOf(1, 2) = <<2, 1>> /\ CountsOf(2, 2) = <<2, 1>>
  /\ hist[1][1].out[1].path = "wedge"
  /\ hist[1][2].post # hist[1][1].post
  /\ rng[2] = hist[2][2].post

\* the unsigned 64-bit value of a seed term rand_new accepts: v for a
\* non-negative v, v + 2^64 for a negative one
Unsigned(t) == IF t.neg THEN Add(Not(t.mag), Word(1)) ELSE t.mag

\* the output splitmix64 gives once its seed copy has reached x
OutputAt(x) == splitmix64(Sub(x, kGamma)).z

\* the seed copy after k additions of 0x9E3779B97F4A7C15 to u, modulo 2^64
RECURSIVE CopyAfter(_, _)
CopyAfter(u, k) == IF k = 0 THEN u ELSE Add(CopyAfter(u, k - 1), kGamma)

\* C13: when rand_new returns ok, s[0..3] of the new RandState are the
\* splitmix64 outputs for the seed copy after 1, 2, 3 and 4 additions of the
\* constant, the seed being taken as unsigned (a negative v as v + 2^64).
C13_SeededBySplitmix ==
  (rcall.fn = "rand_new" /\ rcall.ret = "ok") =>
    rng[rcall.h] = [i \in 1..4 |-> OutputAt(CopyAfter(Unsigned(rcall.term), i))]

\* rand_new succeeded on the seed -1 and left the state of the seed 2^64 - 1,
\* whose four words differ from one another
C13_Witness ==
  /\ rcall.fn = "rand_new" /\ rcall.ret = "ok" /\ rcall.term = NegTerm(Word(1))
  /\ rng[rcall.h] = rand_seed(AllOnes)
  /\ \A i \in 1..4, k \in 1..4 : i # k => rng[rcall.h][i] # rng[rcall.h][k]

\* the state words the claim's update leaves, from the words before the step
\* (s[k + 1] is the code's s[k]), as closed expressions
UpdatedWords(s) ==
  <<Xor(Xor(s[1], s[4]), s[2]),
    Xor(Xor(s[2], s[3]), s[1]),
    Xor(Xor(s[3], s[1]), Shl(s[2], 17)),
    rotl(Xor(s[4], s[2]), 45)>>

\* the value rotl(s1 * 5, 7) * 9 modulo 2^64
ScrambledValue(s) == Mul(rotl(Mul(s[2], Word(5)), 7), Word(9))

\* C14: every generator step made for a sample returns rotl(s1*5, 7)*9 of the
\* state before the step (rand_u63: with bit 63 cleared) and leaves the state
\* of the xoshiro256** update, with t = s1 << 17 taken from s1 before it.
C14_XoshiroStep ==
  \A k \in 1..Len(rcall.log) :
    /\ rcall.log[k].post = UpdatedWords(rcall.log[k].pre)
    /\ rcall.log[k].fn = "rand_u64" => rcall.log[k].v = ScrambledValue(rcall.log[k].pre)
    /\ rcall.log[k].fn = "rand_u63" =>
         /\ rcall.log[k].v[W] = 0
         /\ \A b \in 1..(W - 1) : rcall.log[k].v[b] = ScrambledValue(rcall.log[k].pre)[b]

\* a sample that took a rand_u64 step and a rand_u63 step whose unmasked
\* result had bit 63 set
C14_Witness ==
  /\ \E k \in 1..Len(rcall.log) : rcall.log[k].fn = "rand_u64"
  /\ \E k \in 1..Len(rcall.log) :
       /\ rcall.log[k].fn = "rand_u63"
       /\ ScrambledValue(rcall.log[k].pre)[W] = 1
       /\ rcall.log[k].post # rcall.log[k].pre

\* the state after k calls of normal from the state s, and the k values
RECURSIVE StateAfterDraws(_, _)
StateAfterDraws(s, k) ==
  IF k = 0 THEN s ELSE normal([s |-> StateAfterDraws(s, k - 1), log |-> <<>>]).s

DrawAt(s, i) == normal([s |-> StateAfterDraws(s, i - 1), log |-> <<>>]).v

BatchDone ==
  rcall.fn = "rand_normal_batch" /\ rcall.pc = "done" /\ rcall.ret = "ok"

\* C15: a rand_normal_batch call that returns ok for count 0 returns the empty
\* binary and leaves the four state words as they were; one that returns ok
\* for count n > 0 returns n samples in 4n bytes, sample i being the i-th
\* value normal yields from the state the call found, and leaves the state
\* after these n draws.
C15_BatchContents ==
  BatchDone =>
    /\ rcall.term.mag = Zero64 =>
         /\ rcall.out = <<>> /\ rcall.total_bytes = Zero64
         /\ rng[rcall.h] = rcall.pre
    /\ rcall.term.mag # Zero64 =>
         /\ Len(rcall.out) = NatOf(rcall.term.mag)
         /\ rcall.total_bytes = Word(4 * Len(rcall.out))
         /\ \A i \in 1..Len(rcall.out) : rcall.out[i] = DrawAt(rcall.pre, i)
         /\ rng[rcall.h] = StateAfterDraws(rcall.pre, Len(rcall.out))

\* a call with count 0 returned the empty binary and left the state of the
\* seed; the next call, with count 2, returned two different samples, the
\* first from a slow path of normal, and advanced the state
C15_Witness ==
  /\ BatchDone /\ rcall.term = IntTerm(Word(2)) /\ Len(rcall.out) = 2
  /\ rcall.out[1].path = "wedge" /\ rcall.out[2] # rcall.out[1]
  /\ Len(hist[rcall.h]) = 2
  /\ hist[rcall.h][1].count = 0 /\ hist[rcall.h][1].out = <<>>
  /\ hist[rcall.h][1].post = rand_seed(SeedOfTerm(seedOf[rcall.h]))
  /\ rcall.pre = hist[rcall.h][1].post
  /\ rng[rcall.h] # rcall.pre

\* a call of rand_normal_batch that got past the checks of its two arguments
\* with a count above 0
CountedCall ==
  /\ rcall.fn = "rand_normal_batch" /\ rcall.h # 0
  /\ enif_get_uint(rcall.term) /\ rcall.term.mag # Zero64

\* count * 4 as a number of 64 bits (count is below 2^32) exceeds the largest
\* value of size_t
ExceedsSize == ULt(SizeMax(size_bits), Mul(rcall.term.mag, Word(4)))

\* C16: a rand_normal_batch call whose count * 4 exceeds the largest size_t
\* value returns rand_count_too_large, draws nothing and leaves the state
\* words as they were; a call that gets past this check has a count * 4 that
\* fits, and total_bytes is that product.
C16_CountTooLarge ==
  CountedCall =>
    /\ ExceedsSize =>
         /\ rcall.pc = "done" /\ rcall.ret = "rand_count_too_large"
         /\ rcall.out = <<>> /\ rcall.log = <<>>
         /\ rng[rcall.h] = rcall.pre
    /\ rcall.ret = "rand_count_too_large" => ExceedsSize
    /\ (rcall.pc = "fill" \/ rcall.ret \in {"ok", "rand_alloc_failed"}) =>
         /\ ~ExceedsSize
         /\ rcall.total_bytes = Mul(rcall.term.mag, Word(4))

\* with a size_t of 32 bits, the count 2^30 was refused on a RandState that an
\* earlier call had advanced
C16_Witness ==
  /\ size_bits = 32 /\ CountedCall /\ rcall.term = IntTerm(Shl(Word(1), 30))
  /\ rcall.ret = "rand_count_too_large"
  /\ Len(hist[rcall.h]) = 1 /\ hist[rcall.h][1].count = 2
  /\ rng[rcall.h] = hist[rcall.h][1].post
  /\ rng[rcall.h] # rand_seed(SeedOfTerm(seedOf[rcall.h]))

----------------------------------------------------------------------------
(* Termination of the subdivision *)

\* the sub-curve flattenQuadRecursive / flattenCubicRecursive is working on
InRecursion == fpc \in {"quad", "cubic"} /\ stack # <<>>

TopFlat ==
  IF fpc = "quad"
  THEN quadFlatnessLeq(Head(stack).p[1], Head(stack).p[2], Head(stack).p[3], tol)
  ELSE cubicFlatnessLeq(Head(stack).p[1], Head(stack).p[2], Head(stack).p[3],
                        Head(stack).p[4], tol)

\* the first recursive call would get the curve the present call got
OwnFirstHalf ==
  IF fpc = "quad" THEN quad_first(Head(stack).p) = Head(stack).p
  ELSE cubic_first(Head(stack).p) = Head(stack).p

\* C17 as claimed, in the form a finite run can refute: the subdivision of a
\* curve reaches leaves after finitely many splits, so no call of
\* flattenQuadRecursive / flattenCubicRecursive gets a curve that fails the
\* flatness test and is handed on unchanged to the first recursive call.
C17_AsClaimed == InRecursion => (TopFlat \/ ~OwnFirstHalf)

----------------------------------------------------------------------------
(* Claims about the box passes *)

\* length of a line of the last pass (a row for h, a column for v) and the
\* number of lines
LineLen == IF call.pass = "h" THEN img.w ELSE img.h

LineCount == IF call.pass = "h" THEN img.h ELSE img.w

\* index, in a tight buffer, of channel c at position pos of line l
CellIndex(l, pos, c) ==
  IF call.pass = "h"
  THEN l * img.w * Channels(img.fmt) + pos * Channels(img.fmt) + c + 1
  ELSE pos * img.w * Channels(img.fmt) + l * Channels(img.fmt) + c + 1

\* what the last pass read and what it wrote
PassIn(l, pos, c) == call.src[CellIndex(l, pos, c)]

PassOut(l, pos, c) ==
  IF call.pass = "h" THEN buf_b[CellIndex(l, pos, c)] ELSE buf_a[CellIndex(l, pos, c)]

\* S: the sum over i in from..r of the input at clamp(pos + i, 0, n - 1)
RECURSIVE WindowSum(_, _, _, _, _)
WindowSum(l, pos, c, from, r) ==
  IF from > r THEN 0
  ELSE PassIn(l, clamp_int(pos + from, 0, LineLen - 1), c)
       + WindowSum(l, pos, c, from + 1, r)

\* channel c of line l of the input, as the sequence the sliding loop runs over
LineOf(l, c) == [pos \in 1..LineLen |-> PassIn(l, pos - 1, c)] \o <<>>

\* C18: after a horizontal or vertical box pass with radius r, the byte of
\* channel c at position x of each row / column is (S + r) div (2r + 1) for
\* the clamped window sum S of the same channel, the running sum of the
\* sliding loop was S when that byte was written, and the byte lies between
\* the least and the greatest input byte of that channel in the row / column.
C18_BoxPass ==
  call.pass # "none" =>
    \A l \in 0..(LineCount - 1), c \in 0..(Channels(img.fmt) - 1) :
      \A x \in 0..(LineLen - 1) :
        /\ PassOut(l, x, c) =
             (WindowSum(l, x, c, 0 - call.radius, call.radius) + call.radius)
               \div (2 * call.radius + 1)
        /\ SlideTrace(LineOf(l, c), LineLen, call.radius)[x + 1].sum =
             WindowSum(l, x, c, 0 - call.radius, call.radius)
        /\ \E i \in 0..(LineLen - 1) : PassIn(l, i, c) <= PassOut(l, x, c)
        /\ \E i \in 0..(LineLen - 1) : PassIn(l, i, c) >= PassOut(l, x, c)
        /\ PassOut(l, x, c) \in 0..255

\* a vertical pass with radius 1 over columns of two different pixels of four
\* channels, following a horizontal pass, changed the buffer
C18_Witness ==
  /\ call.pass = "v" /\ call.radius = 1 /\ ncalls = 2
  /\ img.fmt = "PRGB32" /\ img.w = 2 /\ img.h = 2
  /\ buf_a # call.src /\ buf_a # img.data
  /\ PassIn(0, 0, 1) # PassIn(0, 1, 1)
  /\ PassOut(0, 0, 1) # PassIn(0, 0, 1)

----------------------------------------------------------------------------
(* Claims about the order of the passes *)

RECURSIVE SumSeq(_)
SumSeq(q) == IF q = <<>> THEN 0 ELSE Head(q) + SumSeq(Tail(q))

\* one box pass over a tight w x h buffer of ch channels, written down from
\* the formula: every byte is (S + r) div (2r + 1), S being the clamped window
\* sum along the row (dir "h") or the column (dir "v")
BoxFormula(dir, buf, w, h, ch, r) ==
  [k \in 1..(w * h * ch) |->
     LET y == (k - 1) \div (w * ch)
         x == ((k - 1) % (w * ch)) \div ch
         c == (k - 1) % ch
         window == [i \in 1..(2 * r + 1) |->
                      IF dir = "h"
                      THEN buf[y * w * ch + clamp_int(x + i - r - 1, 0, w - 1) * ch + c + 1]
                      ELSE buf[clamp_int(y + i - r - 1, 0, h - 1) * w * ch + x * ch + c + 1]]
     IN (SumSeq(window \o <<>>) + r) \div (2 * r + 1)] \o <<>>

\* the effective rectangle of the last call: sides, channels, bytes
RectW == Side(call.width, img.w)

RectH == Side(call.height, img.h)

RectBytes == RectW * Channels(img.fmt) * RectH

\* the packed copy of the effective rectangle of the image before the call
PackedRect ==
  [k \in 1..RectBytes |->
     call.data[((k - 1) \div (RectW * Channels(img.fmt))) * img.stride
               + ((k - 1) % (RectW * Channels(img.fmt))) + 1]] \o <<>>

\* buffers A and B after round i of the claim: B = h-pass of A, then A =
\* v-pass of B, with radius sizes[i] div 2; round 0 is the packed copy
RECURSIVE RoundsAB(_)
RoundsAB(i) ==
  IF i = 0 THEN [a |-> PackedRect, b |-> <<>>]
  ELSE LET prev == RoundsAB(i - 1)
           r == gaussian_to_box_sizes(call.sigma)[i] \div 2
           b1 == BoxFormula("h", prev.a, RectW, RectH, Channels(img.fmt), r)
       IN [a |-> BoxFormula("v", b1, RectW, RectH, Channels(img.fmt), r), b |-> b1]

\* C19: after a successful non-degenerate call, buffer A starts with the
\* result of the three rounds (h from A to B, then v from B to A) applied to
\* the packed rectangle, buffer B with the result of the third horizontal
\* pass, and the image rectangle holds the bytes of A.
C19_PingPong ==
  Blurred =>
    \E last \in {RoundsAB(3)} :
      \A k \in 1..RectBytes :
        /\ buf_a[k] = last.a[k]
        /\ buf_b[k] = last.b[k]
        /\ img.data[((k - 1) \div (RectW * Channels(img.fmt))) * img.stride
                    + ((k - 1) % (RectW * Channels(img.fmt))) + 1] = buf_a[k]

\* a blur with sigma 2.0 (radii 1, 1, 2) of a 2 x 2 image of four channels
\* with row padding, where A and B differ at the end and the image changed
C19_Witness ==
  /\ Blurred /\ call.sigma = 20 /\ img.fmt = "PRGB32"
  /\ img.w = 2 /\ img.h = 2 /\ RectW = 2 /\ RectH = 2
  /\ img.stride > 8
  /\ buf_a # buf_b
  /\ img.data # call.data

----------------------------------------------------------------------------
(* Claims about the scratch buffers *)

\* the last call got as far as the scratch buffers (blur.cpp:160-164): it
\* succeeded on an image with pixels
ReachedScratch == Called /\ ret = "BL_SUCCESS" /\ img.w > 0 /\ img.h > 0

\* C20: both scratch buffers are empty before the first call; after every
\* call they have the same size, which is not below the size before the call;
\* after a successful non-degenerate call the size is the largest tight byte
\* size eff_w * channels * eff_h such a call has asked for so far on the
\* thread (the present one included); after every other call it is the size
\* before the call.
C20_ScratchGrowsOnly ==
  /\ ncalls = 0 => (Len(buf_a) = 0 /\ Len(buf_b) = 0)
  /\ Len(buf_a) = Len(buf_b)
  /\ Len(buf_a) = req_max
  /\ Called =>
       /\ Len(buf_a) >= Len(call.a) /\ Len(buf_b) >= Len(call.b)
       /\ ReachedScratch =>
            /\ Len(buf_a) >= RectBytes
            /\ Len(buf_a) = IF RectBytes > Len(call.a) THEN RectBytes ELSE Len(call.a)
       /\ ~ReachedScratch => (Len(buf_a) = Len(call.a) /\ Len(buf_b) = Len(call.b))

\* the second call on the thread blurred a 1 x 1 rectangle of a one-channel
\* image after the first had blurred a whole image of four channels: the
\* buffers kept the larger size
C20_Witness ==
  /\ ncalls = 2 /\ ReachedScratch /\ img.fmt = "A8" /\ RectBytes = 1
  /\ Len(call.a) = 4 * MaxDim * MaxDim
  /\ Len(buf_a) = Len(call.a) /\ Len(buf_b) = Len(call.a)
  /\ req_max > RectBytes

----------------------------------------------------------------------------
(* Claims about what a call depends on *)

\* the image as it was handed to the last call
ImageBefore == [img EXCEPT !.data = call.data]

\* the last call made again on a thread that never blurred: both scratch
\* buffers empty (blur.cpp:54-60)
OnFreshThread ==
  BlurOutcome(ImageBefore, <<>>, <<>>, call.sigma, call.width, call.height,
              call.getDataOk)

\* C21: the return value and the image bytes after a call are those the same
\* call gives on a thread whose scratch buffers are still empty, whatever
\* earlier calls on the thread left in the buffers and however large those
\* calls made them.
C21_HistoryFree ==
  Called =>
    \E fresh \in {OnFreshThread} :
      /\ ret = fresh.ret
      /\ img.data = fresh.data

\* a second call that blurs a rectangle smaller than the scratch buffers,
\* which hold bytes of the first call that differ from the rectangle
C21_Witness ==
  /\ ncalls = 2 /\ ReachedScratch
  /\ Len(call.a) > RectBytes
  /\ \E k \in 1..RectBytes : call.a[k] # PackedRect[k] /\ call.a[k] # 0
  /\ img.data # call.data

----------------------------------------------------------------------------
(* Claims about two threads *)

\* every access to a scratch pair was made by the thread that owns it
OwnScratchOnly == \A acc \in rd \cup wr : acc[2] = acc[1]

\* the call of thread t made with no other thread about, on a thread that
\* never blurred before
RunAlone(t) ==
  BlurOutcome([img[t] EXCEPT !.data = call[t].data], <<>>, <<>>,
              call[t].sigma, call[t].width, call[t].height, call[t].getDataOk)

\* C22: with two threads inside blur_image_inplace on two images, in every
\* interleaving of their blocks each thread touches only its own scratch
\* pair, an image is not written before its thread's copy out, and once a
\* thread has returned its return value and its image's bytes are those of
\* the same call run alone.
C22_ThreadsApart ==
  /\ OwnScratchOnly
  /\ \A t \in Threads :
       /\ call[t].pc \notin {"idle", "done"} => img[t].data = call[t].data
       /\ call[t].pc = "done" =>
            \E alone \in {RunAlone(t)} :
              /\ ret[t] = alone.ret
              /\ img[t].data = alone.data

\* both threads have returned from blurs of images of different formats that
\* changed both images, and each took steps while the other was inside
C22_Witness ==
  /\ \A t \in Threads :
       /\ call[t].pc = "done" /\ ret[t] = "BL_SUCCESS" /\ call[t].mixed
       /\ img[t].data # call[t].data
  /\ img[1].fmt = "A8" /\ img[2].fmt = "PRGB32"
  /\ Len(buf_a[1]) # Len(buf_a[2])
  /\ rd = {<<1, 1>>, <<2, 2>>}

----------------------------------------------------------------------------
(* Claims about close commands *)

\* the loop of flattenPath is at a close command
AtClose == fpc = "loop" /\ fi < Len(srcPath) /\ srcPath[fi + 1].cmd = "CLOSE"

\* a move command is among the first k commands of the source
MoveAmong(k) == \E j \in 1..k : srcPath[j].cmd = "MOVE"

\* C23: the step of flattenPath over a close command that no move command
\* precedes leaves the output, the last-on-point and the subpath start as
\* they were.
C23_CloseBeforeMove ==
  [][(AtClose /\ ~MoveAmong(fi) /\ fi' = fi + 1) =>
       (dstPath' = dstPath /\ lastOn' = lastOn /\ subStart' = subStart)]_vars

\* the loop has just passed a close that followed a line-to and no move: the
\* output holds the line-to alone and the last-on-point is its vertex
C23_Witness ==
  /\ fpc = "loop" /\ fi = 2
  /\ srcPath[1].cmd = "ON" /\ srcPath[2].cmd = "CLOSE"
  /\ dstPath = <<srcPath[1]>>
  /\ lastOn = srcPath[1].v /\ lastOn # <<0, 0>>
  /\ subStart = <<0, 0>>

\* a subpath is open after the first k commands, in the sense of a move
\* opening it and a close ending it: the last move or close among them is a
\* move
OpenAfter(k) ==
  \E j \in 1..k :
    /\ srcPath[j].cmd = "MOVE"
    /\ \A m \in (j + 1)..k : srcPath[m].cmd # "CLOSE"

\* C24 as stated: the step of flattenPath over a close command emits a close
\* only when a move came before it and no close came since that move.
C24_AsClaimed ==
  [][(AtClose /\ fi' = fi + 1 /\ ~OpenAfter(fi)) => dstPath' = dstPath]_vars

\* C24 amended: the step of flattenPath over a close command emits one close
\* and sets the last-on-point to the subpath start when a move command was
\* processed at any time before it, whether or not a close was emitted since,
\* and emits nothing otherwise.
C24_CloseAfterAnyMove ==
  [][(AtClose /\ fi' = fi + 1) =>
       IF MoveAmong(fi)
       THEN dstPath' = Append(dstPath, [cmd |-> "CLOSE", v |-> NaNPt])
            /\ lastOn' = subStart
       ELSE dstPath' = dstPath /\ lastOn' = lastOn]_vars

\* a move and two closes in a row have been processed: both closes are in
\* the output
C24_Witness ==
  /\ fpc = "loop" /\ fi = 3
  /\ srcPath[1].cmd = "MOVE" /\ srcPath[2].cmd = "CLOSE" /\ srcPath[3].cmd = "CLOSE"
  /\ dstPath = srcPath

\* the vertex of the last move command among the first k commands
LastMovePoint(k) ==
  srcPath[CHOOSE j \in 1..k :
            /\ srcPath[j].cmd = "MOVE"
            /\ \A m \in (j + 1)..k : srcPath[m].cmd # "MOVE"].v

\* the last command the loop went over was a close, and a move came before it
PastCloseAfterMove ==
  /\ fpc \in {"loop", "quad", "cubic"}
  /\ fi >= 1 /\ srcPath[fi].cmd = "CLOSE" /\ MoveAmong(fi - 1)

\* C25: once the loop is past a close command that a move precedes, the
\* last-on-point is the vertex of the most recent move, and the call of
\* flattenQuadRecursive or flattenCubicRecursive for a curve that comes next
\* gets that vertex as its p0.
C25_CloseRestoresStart ==
  PastCloseAfterMove =>
    /\ lastOn = LastMovePoint(fi)
    /\ (fpc \in {"quad", "cubic"} /\ stack # <<>> /\ stack[Len(stack)].depth = 0) =>
         stack[1].p[1] = LastMovePoint(fi)

\* a quadratic that follows move p, line to q # p, close has been entered
\* with p0 = p
C25_Witness ==
  /\ PastCloseAfterMove /\ fi = 3
  /\ fpc = "quad" /\ Len(stack) = 1 /\ stack[1].depth = 0
  /\ srcPath[2].cmd = "ON" /\ srcPath[2].v # srcPath[1].v
  /\ stack[1].p[1] = srcPath[1].v
  /\ stack[1].p[1] # stack[1].p[3]

----------------------------------------------------------------------------
(* Claims about the subdivision *)

\* the distance of point p from the line through a and b is at most t; the
\* distance counts as 0 when a and b coincide
NearLine(p, a, b, t) ==
  IF a = b THEN 0 <= t
  ELSE /\ t >= 0
       /\ ((b[1] - a[1]) * (p[2] - a[2]) - (b[2] - a[2]) * (p[1] - a[1])) ^ 2
            <= t * t * ((b[1] - a[1]) ^ 2 + (b[2] - a[2]) ^ 2)

\* flatness <= t: for a cubic the larger of the two distances is at most t
IsFlat(q, t) ==
  \A k \in 2..(Len(q) - 1) : NearLine(q[k], q[1], q[Len(q)], t)

\* the point halfway between a and b
Midpoint(a, b) == <<(a[1] + b[1]) \div 2, (a[2] + b[2]) \div 2>>

\* De Casteljau at parameter 1/2: the rows of midpoints of neighbours, down
\* to the single point on the curve
RECURSIVE Casteljau(_)
Casteljau(q) ==
  IF Len(q) = 1 THEN <<q>>
  ELSE <<q>> \o Casteljau([k \in 1..(Len(q) - 1) |-> Midpoint(q[k], q[k + 1])])

\* the two halves: the first points of the rows, and the last points of the
\* rows from the bottom up
FirstHalf(q) == [k \in 1..Len(q) |-> Casteljau(q)[k][1]]

SecondHalf(q) == [k \in 1..Len(q) |-> Casteljau(q)[Len(q) + 1 - k][k]]

\* the end points of the line-tos for curve q at level d: one for a flat
\* curve, else those of the first half followed by those of the second
RECURSIVE LinesFor(_, _, _)
LinesFor(q, t, d) ==
  IF IsFlat(q, t) THEN <<q[Len(q)]>>
  ELSE IF d >= MaxDepth THEN <<>>
  ELSE LinesFor(FirstHalf(q), t, d + 1) \o LinesFor(SecondHalf(q), t, d + 1)

\* the curve the loop of flattenPath is at: the last-on-point, the control
\* point or points, and the companion 'on' point
CurveAt ==
  IF fpc = "quad" THEN <<lastOn, srcPath[fi + 1].v, srcPath[fi + 2].v>>
  ELSE <<lastOn, srcPath[fi + 1].v, srcPath[fi + 2].v, srcPath[fi + 3].v>>

\* the vertices of the last n commands of the output
LastPoints(d, n) == [k \in 1..n |-> d[Len(d) - n + k].v]

\* C26: a step of the subdivision on a sub-curve within the followed depth
\* emits exactly one line-to, to the sub-curve's end point, and leaves the
\* sub-curve when its flatness is <= tolerance; otherwise it emits nothing and
\* replaces the sub-curve by its two De Casteljau halves at parameter 1/2,
\* the first half to be processed before the second and both before
\* whatever was pending.  When the subdivision of a curve returns, the
\* line-tos it emitted run through the leaves of the first half, then those
\* of the second, at every level.
C26_FlatOrSplit ==
  [][(fpc \in {"quad", "cubic"} /\ stack # <<>> /\ Head(stack).depth < MaxDepth) =>
       /\ IF IsFlat(Head(stack).p, tol)
          THEN /\ dstPath' = Append(dstPath, [cmd |-> "ON",
                                              v |-> Head(stack).p[Len(Head(stack).p)]])
               /\ stack' = Tail(stack)
          ELSE /\ dstPath' = dstPath
               /\ Len(stack') = Len(stack) + 1
               /\ stack'[1].p = FirstHalf(Head(stack).p)
               /\ stack'[2].p = SecondHalf(Head(stack).p)
               /\ Tail(Tail(stack')) = Tail(stack)
       /\ stack' = <<>> =>
            \E lines \in {LinesFor(CurveAt, tol, 0)} :
              /\ Len(dstPath') >= Len(lines)
              /\ LastPoints(dstPath', Len(lines)) = lines]_vars

\* the subdivision of a quadratic that is not flat at tolerance 1.0 has
\* returned: it was split, its first line-to ends on the curve's midpoint
\* and its last on the curve's end point
C26_Witness ==
  /\ fpc = "quad" /\ stack = <<>> /\ tol = 64
  /\ ~IsFlat(CurveAt, tol)
  /\ Len(dstPath) >= 2
  /\ dstPath[Len(dstPath)].v = CurveAt[3]
  /\ \E k \in 1..(Len(dstPath) - 1) : dstPath[k].v = FirstHalf(CurveAt)[3]

----------------------------------------------------------------------------
(* Claims about the points of the output *)

\* line-to commands to the points of a sequence
AsLines(pts) == [k \in 1..Len(pts) |-> [cmd |-> "ON", v |-> pts[k]]]

\* The source from command i on, cut into units: a move, a line, a close,
\* or a curve with its companions.  For each unit that emits, the commands
\* it emits and the index `at` of the source's move or 'on' command whose
\* point ends it (0 for a close).  last is the point a curve would start at.
RECURSIVE UnitsFrom(_, _)
UnitsFrom(i, last) ==
  IF i > Len(srcPath) THEN <<>>
  ELSE IF srcPath[i].cmd \in {"MOVE", "ON"}
       THEN <<[out |-> <<srcPath[i]>>, at |-> i]>> \o UnitsFrom(i + 1, srcPath[i].v)
  ELSE IF srcPath[i].cmd = "QUAD"
       THEN <<[out |-> AsLines(LinesFor(<<last, srcPath[i].v, srcPath[i + 1].v>>,
                                        tol, 0)),
               at |-> i + 1]>>
            \o UnitsFrom(i + 2, srcPath[i + 1].v)
  ELSE IF srcPath[i].cmd = "CUBIC"
       THEN <<[out |-> AsLines(LinesFor(<<last, srcPath[i].v, srcPath[i + 1].v,
                                          srcPath[i + 2].v>>, tol, 0)),
               at |-> i + 2]>>
            \o UnitsFrom(i + 3, srcPath[i + 2].v)
  ELSE IF srcPath[i].cmd = "CLOSE" /\ MoveAmong(i - 1)
       THEN <<[out |-> <<srcPath[i]>>, at |-> 0]>>
            \o UnitsFrom(i + 1, LastMovePoint(i - 1))
  ELSE UnitsFrom(i + 1, last)

\* what the units emit, one after the other
RECURSIVE Emitted(_)
Emitted(units) ==
  IF units = <<>> THEN <<>> ELSE Head(units).out \o Emitted(Tail(units))

\* the indices of the source's move and 'on' commands
AnchorIndices == {i \in 1..Len(srcPath) : srcPath[i].cmd \in {"MOVE", "ON"}}

\* C27: when flattenPath succeeds the output is, unit by unit in source
\* order, the move of every move command, the line-to of every 'on' command
\* that is not a curve's companion, the line-tos of every curve and the
\* closes, and nothing else; the source's move and 'on' commands correspond
\* one to one and in order to the units, each unit ending with the command
\* (move, or line-to for an 'on') to exactly the source's point.  So a
\* curve's last line-to is to its companion's point, the companion adds no
\* line-to of its own, and a control point gives no command.
C27_AnchorsInOrder ==
  fret = "BL_SUCCESS" =>
    \E units \in {UnitsFrom(1, <<0, 0>>)} :
      /\ dstPath = Emitted(units)
      /\ \A k \in 1..Len(units) :
           units[k].at # 0 =>
             /\ units[k].out # <<>>
             /\ units[k].out[Len(units[k].out)] =
                  [cmd |-> IF srcPath[units[k].at].cmd = "MOVE" THEN "MOVE" ELSE "ON",
                   v |-> srcPath[units[k].at].v]
      /\ {units[k].at : k \in 1..Len(units)} \ {0} = AnchorIndices
      /\ \A j, k \in 1..Len(units) :
           (j < k /\ units[j].at # 0 /\ units[k].at # 0) => units[j].at < units[k].at

\* a quadratic that was split, followed by a line-to: the output is the
\* curve's line-tos, the last one to the companion's point, and the line-to,
\* and the control point is not among its points
C27_Witness ==
  /\ fret = "BL_SUCCESS" /\ tol = 64 /\ Len(srcPath) = 3
  /\ srcPath[1].cmd = "QUAD" /\ srcPath[3].cmd = "ON"
  /\ srcPath[3].v # srcPath[2].v
  /\ Len(dstPath) >= 3
  /\ dstPath[Len(dstPath) - 1].v = srcPath[2].v
  /\ dstPath[Len(dstPath)].v = srcPath[3].v
  /\ \A k \in 1..Len(dstPath) : dstPath[k].cmd = "ON"
  /\ \A k \in 1..(Len(dstPath) - 2) : dstPath[k].v \notin {srcPath[1].v, srcPath[2].v}

----------------------------------------------------------------------------
(* Claims about the state words *)

\* one of the four words of state s has a bit set
NotAllZero(s) == \E k \in 1..4 : s[k] # Zero64

\* C28: the four words of every RandState that rand_new has made are not all
\* zero, neither between calls nor before or after any generator step made
\* for a sample.
C28_StateNeverZero ==
  /\ \A h \in Handles : rng[h] # NoState => NotAllZero(rng[h])
  /\ \A k \in 1..Len(rcall.log) :
       NotAllZero(rcall.log[k].pre) /\ NotAllZero(rcall.log[k].post)

\* a RandState whose s[0] was 0 after seeding has given two samples and
\* moved on
C28_Witness ==
  /\ rcall.fn = "rand_normal_batch" /\ rcall.pc = "done" /\ rcall.ret = "ok"
  /\ Len(rcall.out) = 2
  /\ rcall.pre[1] = Zero64
  /\ rng[1] # rcall.pre
  /\ seedOf[1] = IntTerm(Neg(kGamma))

----------------------------------------------------------------------------
(* Claims about splitting a batch *)

\* rand_normal_batch gets past its checks of the count (rand.cpp:235-243)
AcceptsCount(t) == enif_get_uint(t) /\ ~CountTooLarge(t.mag, size_bits)

\* the counts the calls of the model are made with
CountTerms == {c.term : c \in CountCalls}

\* RandState h was given the counts a and b, RandState g, made from the same
\* seed, the count a + b at once
SplitAndWhole(h, g) ==
  /\ rng[h] # NoState /\ rng[g] # NoState /\ seedOf[h] = seedOf[g]
  /\ Len(hist[h]) >= 2 /\ Len(hist[g]) >= 1
  /\ hist[g][1].count = hist[h][1].count + hist[h][2].count

\* the samples and the state of the two ways are the same
SameSamples(h, g) ==
  /\ hist[h][1].out \o hist[h][2].out = hist[g][1].out
  /\ hist[h][2].post = hist[g][1].post

\* C29 as stated: for all counts a and b that rand_normal_batch accepts the
\* call with a + b is accepted as well, and the samples of the calls with a
\* and with b, one after the other, are those of the call with a + b from the
\* same starting state, the state left being the same.
C29_AsClaimed ==
  /\ \A ta \in CountTerms, tb \in CountTerms :
       (AcceptsCount(ta) /\ AcceptsCount(tb)) =>
         AcceptsCount(IntTerm(Add(ta.mag, tb.mag)))
  /\ \A h \in Handles, g \in Handles : SplitAndWhole(h, g) => SameSamples(h, g)

\* C29 amended: whenever the calls with a, with b and with a + b have all
\* returned ok, the samples of the calls with a and with b, one after the
\* other, are those of the call with a + b from the same starting state, and
\* the state left is the same.
C29_SplitBatch ==
  \A h \in Handles, g \in Handles : SplitAndWhole(h, g) => SameSamples(h, g)

\* from the same seed one RandState gave one sample twice and the other two
\* samples at once, and the two samples differ
C29_Witness ==
  /\ SplitAndWhole(1, 2)
  /\ hist[1][1].count = 1 /\ hist[1][2].count = 1 /\ hist[2][1].count = 2
  /\ hist[2][1].out[1] # hist[2][1].out[2]
  /\ hist[1][1].post # hist[1][2].post

----------------------------------------------------------------------------
(* Claims about the destination resource *)

\* path_flatten has returned after NifResource<Path>::alloc gave it a
\* resource
ReturnedWithResource == fpc = "done" /\ nifRet # "none" /\ dstRes.id # 0

\* C30 as stated: when path_flatten returns after the destination resource
\* was allocated, native code holds no reference to the resource any more:
\* after success only the returned term refers to it, after a failure of
\* flattenPath nothing does.
C30_AsClaimed ==
  ReturnedWithResource =>
    /\ dstRes.own = 0
    /\ nifRet = "ok" => dstRes.terms = 1
    /\ nifRet = "flatten_failed" => dstRes.terms = 0

====
